---------------------------- MODULE Spec2Model ----------------------------
(***************************************************************************)
(* Model of the decimal floating-point Value type of package fixed         *)
(* (src/value.go, with the bit layout of src/unnamed/part_008:562-593).    *)
(*                                                                         *)
(* A Value is one uint64 word: 8 exponent bits above 56 mantissa bits.     *)
(* The 64-bit quantities of the program do not fit the integers of the     *)
(* model checker, so every `number` (uint64) is held as its sequence of    *)
(* decimal digits, least significant digit first, without leading zeros;   *)
(* the number 0 is the empty sequence.  Arithmetic on these sequences is   *)
(* exact; the width of the machine word is applied where the program       *)
(* applies it (U64 wraps modulo 2^64, fromMantAndExp masks to 56 bits).    *)
(* Exponents (expType = int32) and precisions are model integers.          *)
(***************************************************************************)
EXTENDS Integers, Sequences, FiniteSets, TLC

VARIABLES
  pc,     \* "init", or the name of the operation that has been applied
  a,      \* first operand (a Value; a Signed for Signed.Add)
  b,      \* second operand (a Value; a Signed for Signed.Add)
  prec,   \* precision argument of DivMod
  mi,     \* raw uint64: mantissa argument of a constructor, result of Uint64
  ei,     \* raw int32 exponent argument of a constructor or of ToExp
  txt,    \* a string: an input to FromString, or the output of String
  res,    \* Value result of the operation (a Signed for Signed.Add; the
          \* pair r1, re of toEqualExp)
  rem,    \* second Value result (remainder of DivMod; the pair r2, re)
  flag,   \* boolean result (Eq, the neg flag of Sub, exact of toUint64)
  ord,    \* integer result (Cmp)
  err,    \* error result of FromString ("" when it succeeds)
  pos,    \* position carried by the error of FromString (0 when none)
  JSONMode, \* the package variable JSONMode
  calls   \* the MarshalJSON calls of concurrent goroutines: for each its
          \* position, the mode it has read, the modes JSONMode has held
          \* since it began, and its output

vars == <<pc, a, b, prec, mi, ei, txt, res, rem, flag, ord, err, pos, JSONMode, calls>>

---------------------------------------------------------------------------
(* uint64 arithmetic on decimal digit sequences                            *)

RECURSIVE StripHi(_)
StripHi(s) == IF s = << >> THEN s
              ELSE IF s[Len(s)] = 0 THEN StripHi(SubSeq(s, 1, Len(s) - 1))
              ELSE s

RECURSIVE NatOf(_)
NatOf(n) == IF n = 0 THEN << >> ELSE <<n % 10>> \o NatOf(n \div 10)

RECURSIVE ToInt(_)
ToInt(s) == IF s = << >> THEN 0 ELSE Head(s) + 10 * ToInt(Tail(s))

Dig(s, i) == IF i <= Len(s) THEN s[i] ELSE 0

RECURSIVE AddFrom(_, _, _, _)
AddFrom(x, y, i, c) ==
  IF i > Len(x) /\ i > Len(y) THEN (IF c = 0 THEN << >> ELSE <<c>>)
  ELSE LET t == Dig(x, i) + Dig(y, i) + c
       IN  <<t % 10>> \o AddFrom(x, y, i + 1, t \div 10)

NAdd(x, y) == AddFrom(x, y, 1, 0)

RECURSIVE SubFrom(_, _, _, _)
SubFrom(x, y, i, br) ==
  IF i > Len(x) THEN << >>
  ELSE LET t == Dig(x, i) - Dig(y, i) - br
       IN  IF t < 0 THEN <<t + 10>> \o SubFrom(x, y, i + 1, 1)
                    ELSE <<t>> \o SubFrom(x, y, i + 1, 0)

\* x - y for x >= y
NSub(x, y) == StripHi(SubFrom(x, y, 1, 0))

RECURSIVE CmpFrom(_, _, _)
CmpFrom(x, y, i) == IF i = 0 THEN 0
                    ELSE IF x[i] > y[i] THEN 1
                    ELSE IF x[i] < y[i] THEN -1
                    ELSE CmpFrom(x, y, i - 1)

NCmp(x, y) == IF Len(x) > Len(y) THEN 1
              ELSE IF Len(x) < Len(y) THEN -1
              ELSE CmpFrom(x, y, Len(x))

NLe(x, y) == NCmp(x, y) <= 0
NLt(x, y) == NCmp(x, y) < 0

Zeros(k) == [i \in 1..k |-> 0]

\* x * 10^k, x \div 10^k
NShl(x, k) == IF x = << >> THEN x ELSE Zeros(k) \o x
NShr(x, k) == IF k >= Len(x) THEN << >> ELSE SubSeq(x, k + 1, Len(x))

RECURSIVE MulDigFrom(_, _, _, _)
MulDigFrom(x, d, i, c) ==
  IF i > Len(x) THEN (IF c = 0 THEN << >> ELSE <<c>>)
  ELSE LET t == x[i] * d + c
       IN  <<t % 10>> \o MulDigFrom(x, d, i + 1, t \div 10)

NMulDig(x, d) == IF d = 0 THEN << >> ELSE MulDigFrom(x, d, 1, 0)

RECURSIVE MulFrom(_, _, _, _)
MulFrom(x, y, j, acc) ==
  IF j > Len(y) THEN acc
  ELSE LET acc1 == NAdd(acc, NShl(NMulDig(x, y[j]), j - 1))
       IN  IF Len(acc1) >= 0 THEN MulFrom(x, y, j + 1, acc1) ELSE << >>

NMul(x, y) == MulFrom(x, y, 1, << >>)

\* one quotient digit: how often y goes into r, for r < 10 * y
RECURSIVE QDigit(_, _, _)
QDigit(r, y, q) == IF NLt(r, y) THEN <<q, r>>
                   ELSE QDigit(NSub(r, y), y, q + 1)

\* long division, most significant digit of x first
RECURSIVE DivFrom(_, _, _, _, _)
DivFrom(x, y, i, r, q) ==
  IF i = 0 THEN <<StripHi(q), r>>
  ELSE LET qd == QDigit(StripHi(<<x[i]>> \o r), y, 0)
       IN  IF qd[1] >= 0 THEN DivFrom(x, y, i - 1, qd[2], <<qd[1]>> \o q)
                         ELSE << >>

\* <<x \div y, x % y>> for y > 0
NDivMod(x, y) == DivFrom(x, y, Len(x), << >>, << >>)
NDiv(x, y) == NDivMod(x, y)[1]
NMod(x, y) == NDivMod(x, y)[2]

---------------------------------------------------------------------------
(* constants of the representation                                         *)

signBit == 0
expBits == 8
bitsInNumber == 64
mantBits == bitsInNumber - expBits - signBit
bias == -(2^(expBits - 1) - 1)
maxExponent == 2^(expBits - 1)
minExponent == bias

\* 2^bitsInNumber = 18446744073709551616
Two64 == <<6,1,6,1,5,5,9,0,7,3,7,0,4,4,7,6,4,4,8,1>>
\* 2^mantBits = 72057594037927936
Two56 == <<6,3,9,7,2,9,7,3,0,4,9,5,7,5,0,2,7>>
\* 1<<mantBits - 1 = 72057594037927935
mantMask == <<5,3,9,7,2,9,7,3,0,4,9,5,7,5,0,2,7>>
maxMantissa == mantMask
minMantissa == <<1>>
\* 1<<bitsInNumber - 1 = 18446744073709551615
maxNumber == <<5,1,6,1,5,5,9,0,7,3,7,0,4,4,7,6,4,4,8,1>>

\* the value a uint64 holds after an operation whose exact result is x
U64(x) == IF NLt(x, Two64) THEN x ELSE NMod(x, Two64)

\* decimalFactorTable: 1, 10, ..., 1e19
decimalFactorTable ==
  << <<1>>,
     <<0,1>>,
     <<0,0,1>>,
     <<0,0,0,1>>,
     <<0,0,0,0,1>>,
     <<0,0,0,0,0,1>>,
     <<0,0,0,0,0,0,1>>,
     <<0,0,0,0,0,0,0,1>>,
     <<0,0,0,0,0,0,0,0,1>>,
     <<0,0,0,0,0,0,0,0,0,1>>,
     <<0,0,0,0,0,0,0,0,0,0,1>>,
     <<0,0,0,0,0,0,0,0,0,0,0,1>>,
     <<0,0,0,0,0,0,0,0,0,0,0,0,1>>,
     <<0,0,0,0,0,0,0,0,0,0,0,0,0,1>>,
     <<0,0,0,0,0,0,0,0,0,0,0,0,0,0,1>>,
     <<0,0,0,0,0,0,0,0,0,0,0,0,0,0,0,1>>,
     <<0,0,0,0,0,0,0,0,0,0,0,0,0,0,0,0,1>>,
     <<0,0,0,0,0,0,0,0,0,0,0,0,0,0,0,0,0,1>>,
     <<0,0,0,0,0,0,0,0,0,0,0,0,0,0,0,0,0,0,1>>,
     <<0,0,0,0,0,0,0,0,0,0,0,0,0,0,0,0,0,0,0,1>> >>

digitsHelper ==
  << 0, 0, 0, 0, 1, 1, 1, 2, 2, 2,
     3, 3, 3, 3, 4, 4, 4, 5, 5, 5,
     6, 6, 6, 6, 7, 7, 7, 8, 8, 8,
     9, 9, 9, 9, 10, 10, 10, 11, 11, 11,
     12, 12, 12, 12, 13, 13, 13, 14, 14, 14,
     15, 15, 15, 15, 16, 16, 16, 17, 17, 17,
     18, 18, 18, 18, 19 >>

\* len(manyZeros)
manyZerosLen == 145

pow10(pow) == IF pow < 0 \/ pow >= Len(decimalFactorTable) THEN << >>
              ELSE decimalFactorTable[pow + 1]

\* the powers of two 2^0 .. 2^63, written out, to count the bits of a number
powersOfTwo ==
  << <<1>>,
     <<2>>,
     <<4>>,
     <<8>>,
     <<6,1>>,
     <<2,3>>,
     <<4,6>>,
     <<8,2,1>>,
     <<6,5,2>>,
     <<2,1,5>>,
     <<4,2,0,1>>,
     <<8,4,0,2>>,
     <<6,9,0,4>>,
     <<2,9,1,8>>,
     <<4,8,3,6,1>>,
     <<8,6,7,2,3>>,
     <<6,3,5,5,6>>,
     <<2,7,0,1,3,1>>,
     <<4,4,1,2,6,2>>,
     <<8,8,2,4,2,5>>,
     <<6,7,5,8,4,0,1>>,
     <<2,5,1,7,9,0,2>>,
     <<4,0,3,4,9,1,4>>,
     <<8,0,6,8,8,3,8>>,
     <<6,1,2,7,7,7,6,1>>,
     <<2,3,4,4,5,5,3,3>>,
     <<4,6,8,8,0,1,7,6>>,
     <<8,2,7,7,1,2,4,3,1>>,
     <<6,5,4,5,3,4,8,6,2>>,
     <<2,1,9,0,7,8,6,3,5>>,
     <<4,2,8,1,4,7,3,7,0,1>>,
     <<8,4,6,3,8,4,7,4,1,2>>,
     <<6,9,2,7,6,9,4,9,2,4>>,
     <<2,9,5,4,3,9,9,8,5,8>>,
     <<4,8,1,9,6,8,9,7,1,7,1>>,
     <<8,6,3,8,3,7,9,5,3,4,3>>,
     <<6,3,7,6,7,4,9,1,7,8,6>>,
     <<2,7,4,3,5,9,8,3,4,7,3,1>>,
     <<4,4,9,6,0,9,7,7,8,4,7,2>>,
     <<8,8,8,3,1,8,5,5,7,9,4,5>>,
     <<6,7,7,7,2,6,1,1,5,9,9,0,1>>,
     <<2,5,5,5,5,2,3,2,0,9,9,1,2>>,
     <<4,0,1,1,1,5,6,4,0,8,9,3,4>>,
     <<8,0,2,2,2,0,3,9,0,6,9,7,8>>,
     <<6,1,4,4,4,0,6,8,1,2,9,5,7,1>>,
     <<2,3,8,8,8,0,2,7,3,4,8,1,5,3>>,
     <<4,6,6,7,7,1,4,4,7,8,6,3,0,7>>,
     <<8,2,3,5,5,3,8,8,4,7,3,7,0,4,1>>,
     <<6,5,6,0,1,7,6,7,9,4,7,4,1,8,2>>,
     <<2,1,3,1,2,4,3,5,9,9,4,9,2,6,5>>,
     <<4,2,6,2,4,8,6,0,9,9,9,8,5,2,1,1>>,
     <<8,4,2,5,8,6,3,1,8,9,9,7,1,5,2,2>>,
     <<6,9,4,0,7,3,7,2,6,9,9,5,3,0,5,4>>,
     <<2,9,9,0,4,7,4,5,2,9,9,1,7,0,0,9>>,
     <<4,8,9,1,8,4,9,0,5,8,9,3,4,1,0,8,1>>,
     <<8,6,9,3,6,9,8,1,0,7,9,7,8,2,0,6,3>>,
     <<6,3,9,7,2,9,7,3,0,4,9,5,7,5,0,2,7>>,
     <<2,7,8,5,5,8,5,7,0,8,8,1,5,1,1,4,4,1>>,
     <<4,4,7,1,1,7,1,5,1,6,7,3,0,3,2,8,8,2>>,
     <<8,8,4,3,2,4,3,0,3,2,5,7,0,6,4,6,7,5>>,
     <<6,7,9,6,4,8,6,0,6,4,0,5,1,2,9,2,5,1,1>>,
     <<2,5,9,3,9,6,3,1,2,9,0,0,3,4,8,5,0,3,2>>,
     <<4,0,9,7,8,3,7,2,4,8,1,0,6,8,6,1,1,6,4>>,
     <<8,0,8,5,7,7,4,5,8,6,3,0,2,7,3,3,2,2,9>> >>

\* 64 - LeadingZeros64(value): the number of k with 2^k <= value
binaryDigits(value) ==
  Cardinality({k \in 1..bitsInNumber : NLe(powersOfTwo[k], value)})

decimalDigits(value) ==
  LET adjust(digits) ==
        IF NLe(decimalFactorTable[digits + 1], value) THEN digits + 1
        ELSE digits
  IN  IF value = << >> THEN 1
      ELSE adjust(digitsHelper[binaryDigits(value) + 1])

log10(x) == decimalDigits(x) - 1

abs(val) == IF val < 0 THEN -val ELSE val

uint64Cmp(x, y) == NCmp(x, y)

---------------------------------------------------------------------------
(* the packed word: Value(number(exp-bias)<<mantBits | mant&mantMask).     *)
(* A word is held as the pair of its two bit fields, m = the low 56 bits   *)
(* and e = the high 8 bits plus bias; two words are the same bits exactly  *)
(* when the two records are equal.                                         *)

fromMantAndExp(mt, ex) ==
  [m |-> IF NLe(mt, mantMask) THEN mt ELSE NMod(mt, Two56),
   e |-> ((ex - bias) % (2^expBits)) + bias]

exp(v) == v.e
mant(v) == v.m

\* Value(0)
zero == [m |-> << >>, e |-> bias]

Max == fromMantAndExp(maxMantissa, maxExponent)
Min == fromMantAndExp(minMantissa, minExponent)

RECURSIVE adjustLoop1(_, _)
adjustLoop1(mt, ex) ==
  IF (NLt(maxMantissa, mt) \/ ex < minExponent) /\ mt # << >>
       /\ ex + 1 < maxExponent
    THEN adjustLoop1(NShr(mt, 1), ex + 1)
    ELSE <<mt, ex>>

RECURSIVE adjustLoop2(_, _)
adjustLoop2(mt, ex) ==
  IF ex > maxExponent /\ NLt(U64(NShl(mt, 1)), maxMantissa)
    THEN adjustLoop2(U64(NShl(mt, 1)), ex - 1)
    ELSE <<mt, ex>>

adjustMantExp(mt, ex) ==
  LET final(l2) ==
        IF l2[1] = << >> \/ l2[2] < minExponent THEN zero
        ELSE IF l2[2] > maxExponent THEN Max
        ELSE fromMantAndExp(l2[1], l2[2])
      second(l1) == final(adjustLoop2(l1[1], l1[2]))
  IN  second(adjustLoop1(mt, ex))

FromUint64(v) == adjustMantExp(v, 0)

FromMantAndExp(mt, ex) == adjustMantExp(mt, ex)

\* a trimZeros that strips at most one trailing zero
trimOneZero(mt, ex, eMax) ==
  IF ex < eMax /\ Dig(mt, 1) = 0 THEN <<NShr(mt, 1), ex + 1>>
  ELSE <<mt, ex>>

RECURSIVE trimZeros(_, _, _)
trimZeros(mt, ex, eMax) ==
  IF ex < eMax /\ Dig(mt, 1) = 0 THEN trimZeros(NShr(mt, 1), ex + 1, eMax)
  ELSE <<mt, ex>>

Normalized(v) ==
  LET pack(t) == fromMantAndExp(t[1], t[2])
  IN  IF mant(v) = << >> THEN zero
      ELSE pack(trimZeros(mant(v), exp(v), maxExponent))

---------------------------------------------------------------------------
(* comparison                                                              *)

\* a Cmp that scales and compares without first comparing the highest
\* decimal digit positions
CmpScaleOnly(v, other) ==
  LET m1 == mant(v)
      e1 == exp(v)
      m2 == mant(other)
      e2 == exp(other)
      ediff == e1 - e2
  IN  IF ediff = 0 \/ m1 = << >> \/ m2 = << >> THEN uint64Cmp(m1, m2)
      ELSE IF ediff > 0 THEN uint64Cmp(U64(NMul(m1, pow10(ediff))), m2)
      ELSE uint64Cmp(m1, U64(NMul(m2, pow10(-ediff))))

Cmp(v, other) ==
  LET m1 == mant(v)
      e1 == exp(v)
      m2 == mant(other)
      e2 == exp(other)
      ediff == e1 - e2
      maxDigit1 == e1 + decimalDigits(m1)
      maxDigit2 == e2 + decimalDigits(m2)
  IN  IF ediff = 0 \/ m1 = << >> \/ m2 = << >> THEN uint64Cmp(m1, m2)
      ELSE IF maxDigit1 > maxDigit2 THEN 1
      ELSE IF maxDigit1 < maxDigit2 THEN -1
      ELSE IF ediff > 0 THEN uint64Cmp(U64(NMul(m1, pow10(ediff))), m2)
      ELSE uint64Cmp(m1, U64(NMul(m2, pow10(-ediff))))

\* an Eq that compares the stored words only
EqBits(v, other) == v = other

Eq(v, other) == IF v = other THEN TRUE ELSE Normalized(v) = Normalized(other)

IsZero(v) == mant(v) = << >>

---------------------------------------------------------------------------
(* addition and subtraction                                                *)

\* doToEqualExp assumes e1 >= e2; the result is <<r1, r2, re>>
doToEqualExp(m1, e1, m2, e2) ==
  LET \* last resort, decrease m2, lose some digits
      lose(m1g, e1g, m2t, toDiv) ==
        IF toDiv # << >> THEN <<m1g, NDiv(m2t, toDiv), e1g>>
        ELSE <<m1g, << >>, e1g>>
      \* next, increase m1 and decrease e1 by toMult
      grow(m2t, e2t, toMult) ==
        IF e1 - toMult - e2t = 0
          THEN <<U64(NMul(m1, pow10(toMult))), m2t, e1 - toMult>>
          ELSE lose(U64(NMul(m1, pow10(toMult))), e1 - toMult, m2t,
                    pow10(e1 - toMult - e2t))
      limit(m2t, e2t, toMult) ==
        grow(m2t, e2t, IF toMult > e1 - e2t THEN e1 - e2t ELSE toMult)
      \* first, the trailing zeros of m2 have been trimmed
      trimmed(t) ==
        IF e1 - t[2] = 0 THEN <<m1, t[1], e1>>
        ELSE limit(t[1], t[2], log10(NDiv(maxMantissa, m1)))
  IN  IF e1 - e2 = 0 THEN <<m1, m2, e1>>
      ELSE trimmed(trimZeros(m2, e2, e1))

\* a toEqualExp that only cuts the operand with the smaller exponent
toEqualExpCutOnly(m1, e1, m2, e2) ==
  IF e1 >= e2 THEN <<m1, NShr(m2, e1 - e2), e1>>
  ELSE <<NShr(m1, e2 - e1), m2, e2>>

\* a toEqualExp that never swaps its operands
toEqualExpNoSwap(m1, e1, m2, e2) == doToEqualExp(m1, e1, m2, e2)

toEqualExp(m1, e1, m2, e2) ==
  LET swap(r) == <<r[2], r[1], r[3]>>
  IN  IF e1 >= e2 THEN doToEqualExp(m1, e1, m2, e2)
      ELSE swap(doToEqualExp(m2, e2, m1, e1))

\* an addWithExp that drops two digits of a sum above maxMantissa
addWithExpCutTwice(m1, m2, e) ==
  LET store(sum) ==
        IF NLt(maxMantissa, sum)
          THEN IF e = maxExponent THEN Max
               ELSE fromMantAndExp(NShr(sum, 2), e + 1)
          ELSE fromMantAndExp(sum, e)
  IN  store(U64(NAdd(m1, m2)))

\* an addWithExp that does not saturate at maxExponent
addWithExpNoMax(m1, m2, e) ==
  LET store(sum) ==
        IF NLt(maxMantissa, sum) THEN fromMantAndExp(NShr(sum, 1), e + 1)
        ELSE fromMantAndExp(sum, e)
  IN  store(U64(NAdd(m1, m2)))

addWithExp(m1, m2, e) ==
  LET store(sum) ==
        IF NLt(maxMantissa, sum)
          THEN IF e = maxExponent THEN Max
               ELSE fromMantAndExp(NShr(sum, 1), e + 1)
          ELSE fromMantAndExp(sum, e)
  IN  store(U64(NAdd(m1, m2)))

\* a subWithExp that never reports a negative result
subWithExpNoNeg(m1, m2, e) ==
  IF NLe(m2, m1) THEN <<fromMantAndExp(NSub(m1, m2), e), FALSE>>
  ELSE <<fromMantAndExp(NSub(m2, m1), e), FALSE>>

\* the result is <<v, neg>>
subWithExp(m1, m2, e) ==
  IF NLe(m2, m1) THEN <<fromMantAndExp(NSub(m1, m2), e), FALSE>>
  ELSE <<fromMantAndExp(NSub(m2, m1), e), TRUE>>

Add(v, other) ==
  LET sum(q) == addWithExp(q[1], q[2], q[3])
  IN  IF mant(v) = << >>
        THEN IF mant(other) = << >> THEN zero ELSE other
      ELSE IF mant(other) = << >> THEN v
      ELSE sum(toEqualExp(mant(v), exp(v), mant(other), exp(other)))

\* the result is <<|v - other|, neg>>
Sub(v, other) ==
  LET diff(q) == subWithExp(q[1], q[2], q[3])
  IN  IF mant(other) = << >>
        THEN IF mant(v) = << >> THEN <<zero, FALSE>> ELSE <<v, FALSE>>
      ELSE IF mant(v) = << >> THEN <<other, TRUE>>
      ELSE diff(toEqualExp(mant(v), exp(v), mant(other), exp(other)))

---------------------------------------------------------------------------
(* multiplication                                                          *)

\* bits.Mul64: the 128-bit product as <<hi, lo>>
Mul64(x, y) == NDivMod(NMul(x, y), Two64)

\* bits.Div64: the quotient of hi*2^64 + lo by y (it panics unless y > hi)
Div64(hi, lo, y) == NDiv(NAdd(NMul(hi, Two64), lo), y)

\* the result is <<result, expShift>>
mul64(x, y) ==
  LET shifted(hi, lo, expShift) == <<Div64(hi, lo, pow10(expShift)), expShift>>
      halves(p) ==
        IF p[1] # << >> THEN shifted(p[1], p[2], decimalDigits(p[1]))
        ELSE <<p[2], 0>>
  IN  halves(Mul64(x, y))

Mul(v0, other0) ==
  LET store(r, e) == adjustMantExp(r[1], e + r[2])
      product(v, other) ==
        IF mant(v) = << >> \/ mant(other) = << >> THEN zero
        ELSE store(mul64(mant(v), mant(other)), exp(v) + exp(other))
  IN  product(Normalized(v0), Normalized(other0))

---------------------------------------------------------------------------
(* rounding and division                                                   *)

modeFloor == 0
modeRound == 1
modeCeil == 2

\* the last part of round: cut toCut (> 0) digits off n; the result is <<n, e>>
roundCut(n, ex, dd, toCut0, prc, mode) ==
  LET cut(r, nc, ec, half) ==
        IF mode = modeRound /\ NLt(half, r)
          THEN <<U64(NAdd(nc, <<1>>)), ec>>
        ELSE IF mode = modeCeil /\ r # << >>
          THEN IF nc # << >> THEN <<U64(NAdd(nc, <<1>>)), ec>>
               ELSE IF prc >= 0 THEN <<<<1>>, -prc>>
               ELSE <<nc, ec>>
        ELSE <<nc, ec>>
      split(d, p, toCut) == cut(d[2], d[1], ex + toCut, NDiv(p, <<2>>))
      by(p, toCut) == split(NDivMod(n, p), p, toCut)
      digits(toCut) == by(pow10(toCut), toCut)
  IN  digits(IF toCut0 > dd THEN dd ELSE toCut0)

\* the result is <<n, e>>
round(n, e, prc, mode) ==
  LET rnd(dd0) ==
        IF prc >= 0
          THEN IF -e - prc <= 0 THEN <<n, e>>
               ELSE roundCut(n, e, dd0, -e - prc, prc, mode)
        ELSE IF e < 0
          THEN IF dd0 + e <= 0 THEN <<<< >>, 0>>
               ELSE roundCut(NDiv(n, pow10(-e)), 0, dd0 + e, -prc, prc, mode)
        ELSE roundCut(n, e, dd0, -prc, prc, mode)
  IN  rnd(decimalDigits(n))

\* a divMod that returns zeros for a zero dividend before it looks at the
\* divisor
divModZeroFirst(v1, v2) ==
  LET pair(d, e) == <<d[1], d[2], e, FALSE>>
      scaled(m1, m2, e, toMult) ==
        pair(NDivMod(U64(NMul(m1, pow10(toMult))), m2), e - toMult)
      exact(d, m1, m2, e) ==
        IF d[2] = << >> THEN <<d[1], << >>, e, FALSE>>
        ELSE scaled(m1, m2, e, log10(NDiv(maxNumber, m1)))
      parts(m1, m2, e) ==
        IF m1 = << >> THEN <<<< >>, << >>, 0, FALSE>>
        ELSE IF m2 = << >> THEN <<<< >>, << >>, 0, TRUE>>
        ELSE exact(NDivMod(m1, m2), m1, m2, e)
  IN  parts(mant(v1), mant(v2), exp(v1) - exp(v2))

\* the result is <<quo, rem, e, panic>>; panic is the "division by zero"
\* raised for a zero m2
divMod(v1, v2) ==
  LET pair(d, e) == <<d[1], d[2], e, FALSE>>
      \* shift m1 close to the maximum possible number
      scaled(m1, m2, e, toMult) ==
        pair(NDivMod(U64(NMul(m1, pow10(toMult))), m2), e - toMult)
      exact(d, m1, m2, e) ==
        IF d[2] = << >> THEN <<d[1], << >>, e, FALSE>>
        ELSE scaled(m1, m2, e, log10(NDiv(maxNumber, m1)))
      parts(m1, m2, e) ==
        IF m2 = << >> THEN <<<< >>, << >>, 0, TRUE>>
        ELSE IF m1 = << >> THEN <<<< >>, << >>, 0, FALSE>>
        ELSE exact(NDivMod(m1, m2), m1, m2, e)
  IN  parts(mant(v1), mant(v2), exp(v1) - exp(v2))

\* mul64 panics in bits.Div64 when its divisor pow10(decimalDigits(hi)) is
\* not greater than hi, which takes a hi of 20 digits
mul64Panics(x, y) ==
  LET high(hi) == hi # << >> /\ ~NLt(hi, pow10(decimalDigits(hi)))
  IN  high(Mul64(x, y)[1])

MulPanics(v0, other0) ==
  mul64Panics(mant(Normalized(v0)), mant(Normalized(other0)))

\* round panics with an integer division by zero when pow10(-e) or
\* pow10(toCut) is 0, that is when more than 19 digits are to be cut
roundPanics(n, e, prc) ==
  LET cut(dd, toCut) ==
        toCut > 0 /\ pow10(IF toCut > dd THEN dd ELSE toCut) = << >>
      rnd(dd0) ==
        IF prc >= 0 THEN cut(dd0, -e - prc)
        ELSE IF e < 0
          THEN dd0 + e > 0 /\ (pow10(-e) = << >> \/ cut(dd0 + e, -prc))
        ELSE cut(dd0, -prc)
  IN  rnd(decimalDigits(n))

\* DivMod, step by step; each intermediate result is bound to a name once,
\* as the code's local variables are.  The results are [quo, rem, panic].
divModFault == [quo |-> zero, rem |-> zero, panic |-> TRUE]

\* rem, _ = v.Sub(other.Mul(quo))
divModRem(v, other, quo) ==
  IF MulPanics(other, quo) THEN divModFault
  ELSE [quo |-> quo, rem |-> Sub(v, Mul(other, quo))[1], panic |-> FALSE]

\* quo = adjustMantExp(q, e) for the rounded q and e
divModStore(v, other, rd) ==
  CHOOSE out \in {divModRem(v, other, quo) :
                    quo \in {adjustMantExp(rd[1], rd[2])}} : TRUE

\* q, e = round(q, e, prec, modeFloor) for the trimmed q and e
divModRound(v, other, t, prc) ==
  IF roundPanics(t[1], t[2], prc) THEN divModFault
  ELSE CHOOSE out \in {divModStore(v, other, rd) :
                         rd \in {round(t[1], t[2], prc, modeFloor)}} : TRUE

\* the quotient for d = divMod(v, other)
divModQuo(v, other, d, prc) ==
  IF d[4] THEN divModFault
  ELSE IF d[2] = << >>
    THEN [quo |-> Normalized(adjustMantExp(d[1], d[3])), rem |-> zero,
          panic |-> FALSE]
  ELSE CHOOSE out \in
         {divModRound(v, other, t, prc) :
            t \in {IF d[3] < maxExponent
                     THEN trimZeros(d[1], d[3], maxExponent)
                     ELSE <<d[1], d[3]>>}} : TRUE

\* DivMod of the normalized operands
divModNormal(v, other, prc) ==
  CHOOSE out \in {divModQuo(v, other, d, prc) : d \in {divMod(v, other)}} :
    TRUE

\* the result is [quo, rem, panic]
DivMod(v0, other0, prc) ==
  CHOOSE out \in {divModNormal(v, other, prc) :
                    v \in {Normalized(v0)}, other \in {Normalized(other0)}} :
    TRUE

\* the result is [quo, panic, float].  When the integer division leaves a
\* remainder the quotient is computed by float64Div, whose float64
\* arithmetic is not modelled: float is TRUE and quo says nothing.
\* float64Div panics only on a zero divisor, which divMod has excluded, and
\* drops the error of FromFloat64.
Div(v0, other0) ==
  LET divided(d) ==
        IF d[4] THEN [quo |-> zero, panic |-> TRUE, float |-> FALSE]
        ELSE IF d[2] = << >>
          THEN [quo |-> Normalized(adjustMantExp(d[1], d[3])),
                panic |-> FALSE, float |-> FALSE]
        ELSE [quo |-> zero, panic |-> FALSE, float |-> TRUE]
      normal(v, other) == divided(divMod(v, other))
  IN  normal(Normalized(v0), Normalized(other0))

Floor(v, prc) ==
  LET store(r) == adjustMantExp(r[1], r[2])
  IN  store(round(mant(v), exp(v), prc, modeFloor))

---------------------------------------------------------------------------
(* strings: sequences of one-character strings                             *)

digitsInMaxMantissa == decimalDigits(maxMantissa)

delim == "."

DigitChars == <<"0", "1", "2", "3", "4", "5", "6", "7", "8", "9">>

IsDigit(c) == \E d \in 1..10 : DigitChars[d] = c

CharToDigit(c) == (CHOOSE d \in 1..10 : DigitChars[d] = c) - 1

\* unicode.IsSpace, for the characters used here
IsSpace(c) == c \in {" ", "\t", "\n", "\r"}

SetMin(S) == CHOOSE x \in S : \A y \in S : x <= y
SetMax(S) == CHOOSE x \in S : \A y \in S : x >= y

\* strconv.FormatUint(x, 10): most significant digit first
FormatUint(x) ==
  IF x = << >> THEN <<"0">>
  ELSE [i \in 1..Len(x) |-> DigitChars[x[Len(x) + 1 - i] + 1]]

\* strconv.Itoa
Itoa(n) ==
  IF n < 0 THEN <<"-">> \o FormatUint(NatOf(-n)) ELSE FormatUint(NatOf(n))

\* the number written by a string of digits
DigitsValue(s) == StripHi([i \in 1..Len(s) |-> CharToDigit(s[Len(s) + 1 - i])])

\* strconv.ParseUint(s, 10, 64)
ParseUint(s) ==
  LET ranged(val) ==
        IF NLt(maxNumber, val) THEN [ok |-> FALSE, val |-> maxNumber]
        ELSE [ok |-> TRUE, val |-> val]
  IN  IF Len(s) = 0 \/ \E i \in 1..Len(s) : ~IsDigit(s[i])
        THEN [ok |-> FALSE, val |-> << >>]
      ELSE ranged(DigitsValue(s))

Two32 == powersOfTwo[33]
Two31 == powersOfTwo[32]
Two63 == powersOfTwo[64]

\* int32(x) of the int64 with magnitude mag and sign neg
ToInt32(mag, neg) ==
  LET signed(u) ==
        IF NLt(u, Two31) THEN ToInt(u)
        ELSE IF u = Two31 THEN -2147483647 - 1
        ELSE -ToInt(NSub(Two32, u))
      wrapped(low) ==
        signed(IF neg /\ low # << >> THEN NSub(Two32, low) ELSE low)
  IN  wrapped(NMod(mag, Two32))

\* strconv.ParseInt(s, 10, 64) followed by the conversion to int32
ParseInt(s) ==
  LET ranged(mag, neg) ==
        IF neg /\ NLt(Two63, mag) THEN [ok |-> FALSE, val |-> 0]
        ELSE IF ~neg /\ NLe(Two63, mag) THEN [ok |-> FALSE, val |-> 0]
        ELSE [ok |-> TRUE, val |-> ToInt32(mag, neg)]
      digits(ds, neg) ==
        IF Len(ds) = 0 \/ \E i \in 1..Len(ds) : ~IsDigit(ds[i])
          THEN [ok |-> FALSE, val |-> 0]
        ELSE ranged(DigitsValue(ds), neg)
  IN  IF Len(s) > 0 /\ s[1] \in {"+", "-"} THEN digits(Tail(s), s[1] = "-")
      ELSE digits(s, FALSE)

zeroStr(l) ==
  IF l < 0 THEN << >>
  ELSE [i \in 1..(IF l >= manyZerosLen THEN manyZerosLen - 1 ELSE l) |-> "0"]

\* Value.String, which is what WriteToStringsBuilder writes
String(v) ==
  LET \* s followed by zeros
      above(s, e, zeros) ==
        s \o zeros
          \o (IF e - Len(zeros) > 0 THEN <<"e">> \o Itoa(e - Len(zeros))
              ELSE << >>)
      \* leading zeros and a delimiter before s
      below(s, diff, zeros) ==
        <<"0", delim>> \o zeros \o s
          \o (IF -diff - Len(zeros) > 0
                THEN <<"e", "-">> \o Itoa(-diff - Len(zeros))
              ELSE << >>)
      inside(s, diff) ==
        IF diff <= 0 THEN below(s, diff, zeroStr(-diff))
        ELSE SubSeq(s, 1, diff) \o <<delim>> \o SubSeq(s, diff + 1, Len(s))
      write(m, e, s) ==
        IF m = << >> THEN <<"0">>
        ELSE IF e = 0 THEN s
        ELSE IF e > 0 THEN above(s, e, zeroStr(e))
        ELSE inside(s, Len(s) + e)
      normal(n) == write(mant(n), exp(n), FormatUint(mant(n)))
  IN  normal(Normalized(v))

\* prepareString strips a quote at either end, surrounding spaces and one sign
prepareString(s0) ==
  LET none == [s |-> << >>, offset |-> 0, neg |-> FALSE]
      sign(s4, off3) ==
        IF Len(s4) = 0 THEN none
        ELSE IF s4[1] = "-"
          THEN [s |-> Tail(s4), offset |-> off3 + 1, neg |-> TRUE]
        ELSE IF s4[1] = "+"
          THEN [s |-> Tail(s4), offset |-> off3 + 1, neg |-> FALSE]
        ELSE [s |-> s4, offset |-> off3, neg |-> FALSE]
      \* inked: the positions of s2 that hold no space
      spaces(s2, off1, inked) ==
        IF inked = {} THEN none
        ELSE sign(SubSeq(s2, SetMin(inked), SetMax(inked)),
                  off1 + SetMin(inked) - 1)
      closing(s1, off1) ==
        IF Len(s1) = 0 THEN none
        ELSE IF s1[Len(s1)] = "\""
          THEN spaces(SubSeq(s1, 1, Len(s1) - 1), off1,
                      {i \in 1..(Len(s1) - 1) : ~IsSpace(s1[i])})
        ELSE spaces(s1, off1, {i \in 1..Len(s1) : ~IsSpace(s1[i])})
  IN  IF Len(s0) = 0 THEN none
      ELSE IF s0[1] = "\"" THEN closing(Tail(s0), 1)
      ELSE closing(s0, 0)

\* removeLeadingZeros scans s up to the first "e"; positions are counted
\* from 0 as in the code.  err is "" when the scan succeeds.
removeLeadingZeros(s) ==
  LET fail(msg, at) ==
        [result |-> << >>, delimPos |-> 0, e |-> 0, err |-> msg, pos |-> at]
      \* the digits from the first nonzero one on, and the delimiter position
      \* relative to them
      digits(dp, firstNonZeroPos, result, e) ==
        [result |-> result,
         delimPos |->
           IF dp >= 0
             THEN dp - (IF dp < firstNonZeroPos THEN firstNonZeroPos - 1
                        ELSE firstNonZeroPos)
             ELSE Len(result),
         e |-> e, err |-> "", pos |-> 0]
      good(stop, dots, nonZero, e) ==
        IF nonZero = {} THEN fail("", 0)
        ELSE digits(IF dots = {} THEN -1 ELSE SetMin(dots) - 1,
             SetMin(nonZero) - 1,
             SelectSeq(SubSeq(s, SetMin(nonZero), stop - 1), IsDigit),
             e)
      exponent(stop, dots, nonZero, parsed) ==
        IF ~parsed.ok THEN fail("error parsing exponent", stop)
        ELSE good(stop, dots, nonZero, parsed.val)
      scanned(stop, dots, bads, nonZero) ==
        IF bads # {} THEN
          IF s[SetMin(bads)] = delim
            THEN fail("unexpected delimeter", SetMin(bads) - 1)
            ELSE fail("unexpected symbol", SetMin(bads) - 1)
        ELSE IF stop <= Len(s)
          THEN exponent(stop, dots, nonZero,
                        ParseInt(SubSeq(s, stop + 1, Len(s))))
        ELSE good(stop, dots, nonZero, 0)
      delims(stop, dots) ==
        scanned(stop, dots,
                {i \in 1..(stop - 1) :
                   /\ ~IsDigit(s[i])
                   /\ (s[i] # delim \/ \E j \in dots : j < i)},
                {i \in 1..(stop - 1) : IsDigit(s[i]) /\ s[i] # "0"})
      upTo(stop) == delims(stop, {i \in 1..(stop - 1) : s[i] = delim})
      letters(es) == upTo(IF es = {} THEN Len(s) + 1 ELSE SetMin(es))
  IN  letters({i \in 1..Len(s) : s[i] = "e"})

\* a removeTrailingZerosString that strips nothing
keepTrailingZeros(s, delimPos) == [result |-> s, e |-> delimPos - Len(s)]

removeTrailingZerosString(s, delimPos) ==
  LET cut(l) == [result |-> SubSeq(s, 1, l), e |-> delimPos - l]
      last(keep) == cut(IF keep = {} THEN 0 ELSE SetMax(keep))
  IN  last({i \in 1..Len(s) : s[i] # "0"})

\* parseValue returns the digits without leading and trailing zeros and
\* the exponent of the last of them
parseValue(s) ==
  LET both(r, t) ==
        [result |-> t.result, e |-> r.e + t.e, err |-> "", pos |-> 0]
      trailing(r) ==
        IF r.err # ""
          THEN [result |-> << >>, e |-> 0, err |-> r.err, pos |-> r.pos]
        ELSE both(r, removeTrailingZerosString(r.result, r.delimPos))
  IN  trailing(removeLeadingZeros(s))

\* strconv.ParseUint cannot fail here: s is a nonempty string of at most
\* digitsInMaxMantissa digits
fromStringAndExp(s, e) ==
  LET cut(toCut, expInc) ==
        IF toCut > 0
          THEN adjustMantExp(ParseUint(SubSeq(s, 1, digitsInMaxMantissa)).val,
                             IF expInc > 0 THEN e + expInc ELSE e)
        ELSE adjustMantExp(ParseUint(s).val, e)
      excess(toCut) == cut(toCut, IF e < 0 THEN toCut - (-e) ELSE toCut)
  IN  IF Len(s) = 0 THEN zero
      ELSE excess(Len(s) - digitsInMaxMantissa)

\* the decimal floating-point syntax of strconv.ParseFloat
floatSyntax(s) ==
  LET digitsOnly(ds) ==
        Len(ds) > 0 /\ \A i \in 1..Len(ds) : IsDigit(ds[i])
      exponent(expPart) ==
        IF Len(expPart) > 0 /\ expPart[1] \in {"+", "-"}
          THEN digitsOnly(Tail(expPart))
          ELSE digitsOnly(expPart)
      mantissa(mantPart) ==
        /\ \A i \in 1..Len(mantPart) : IsDigit(mantPart[i]) \/ mantPart[i] = delim
        /\ Cardinality({i \in 1..Len(mantPart) : mantPart[i] = delim}) <= 1
        /\ \E i \in 1..Len(mantPart) : IsDigit(mantPart[i])
      parts(body, es) ==
        IF es = {} THEN mantissa(body)
        ELSE /\ mantissa(SubSeq(body, 1, SetMin(es) - 1))
             /\ exponent(SubSeq(body, SetMin(es) + 1, Len(body)))
      unsigned(body) == parts(body, {i \in 1..Len(body) : body[i] \in {"e", "E"}})
  IN  IF Len(s) > 0 /\ s[1] \in {"+", "-"} THEN unsigned(Tail(s))
      ELSE unsigned(s)

\* a FromString that reports the position within the prepared string
FromStringNoOffset(s0) ==
  LET ret(v, msg, at, fl) == [v |-> v, err |-> msg, pos |-> at, float |-> fl]
      parsed(p, pv) ==
        IF pv.err # "" THEN
          IF floatSyntax(p.s) THEN ret(zero, "", 0, TRUE)
          ELSE ret(zero, "parsing failed", pv.pos + 1, FALSE)
        ELSE ret(fromStringAndExp(pv.result, pv.e), "", 0, FALSE)
      prepared(p) ==
        IF Len(p.s) = 0 THEN ret(zero, "empty input", 0, FALSE)
        ELSE IF p.neg THEN ret(zero, "negative value", 0, FALSE)
        ELSE parsed(p, parseValue(p.s))
  IN  prepared(prepareString(s0))

\* a FromString that scans the prepared string whatever its sign
FromStringAnySign(s0) ==
  LET ret(v, msg, at, fl) == [v |-> v, err |-> msg, pos |-> at, float |-> fl]
      parsed(p, pv) ==
        IF pv.err # "" THEN
          IF floatSyntax(p.s) THEN ret(zero, "", 0, TRUE)
          ELSE ret(zero, "parsing failed", pv.pos + p.offset + 1, FALSE)
        ELSE ret(fromStringAndExp(pv.result, pv.e), "", 0, FALSE)
      prepared(p) ==
        IF Len(p.s) = 0 THEN ret(zero, "empty input", 0, FALSE)
        ELSE parsed(p, parseValue(p.s))
  IN  prepared(prepareString(s0))

\* FromString.  When parseValue fails and the text has floating-point syntax
\* the code hands it to strconv.ParseFloat and FromFloat64, whose float64
\* arithmetic (and range errors) are not modelled: float is TRUE and v, err
\* and pos say nothing.
FromString(s0) ==
  LET ret(v, msg, at, fl) == [v |-> v, err |-> msg, pos |-> at, float |-> fl]
      parsed(p, pv) ==
        IF pv.err # "" THEN
          IF floatSyntax(p.s) THEN ret(zero, "", 0, TRUE)
          ELSE ret(zero, "parsing failed", pv.pos + p.offset + 1, FALSE)
        ELSE ret(fromStringAndExp(pv.result, pv.e), "", 0, FALSE)
      prepared(p) ==
        IF Len(p.s) = 0 THEN ret(zero, "empty input", 0, FALSE)
        ELSE IF p.neg THEN ret(zero, "negative value", 0, FALSE)
        ELSE parsed(p, parseValue(p.s))
  IN  prepared(prepareString(s0))

---------------------------------------------------------------------------
(* JSON                                                                    *)

JSONModeString == 0
JSONModeFloat == 1
JSONModeME == 2
JSONModeCompact == 3

\* {"m":  ,"e":  }
jsonParts ==
  <<<<"{", "\"", "m", "\"", ":">>, <<",", "\"", "e", "\"", ":">>, <<"}">>>>

jsonLen == Len(jsonParts[1]) + Len(jsonParts[2]) + Len(jsonParts[3])

\* a toMEJSON that writes the mantissa and exponent as stored
toMEJSONStored(v) ==
  jsonParts[1] \o FormatUint(mant(v)) \o jsonParts[2] \o Itoa(exp(v))
    \o jsonParts[3]

toMEJSON(v) ==
  LET write(n) ==
        jsonParts[1] \o FormatUint(mant(n)) \o jsonParts[2] \o Itoa(exp(n))
          \o jsonParts[3]
  IN  write(Normalized(v))

int64DecimalLen(value) ==
  IF value < 0 THEN 1 + decimalDigits(NatOf(-value))
  ELSE decimalDigits(NatOf(value))

jsonMELen(v) == jsonLen + decimalDigits(mant(v)) + int64DecimalLen(exp(v))

calcStrLen(v0) ==
  LET len(mantLen, e) ==
        IF e > 0 THEN 2 + mantLen + e
        ELSE IF e + mantLen < 0 THEN 2 + mantLen + 1 + (-(e + mantLen))
        ELSE 2 + mantLen + 1
      normal(v) == len(decimalDigits(mant(v)), exp(v))
  IN  normal(Normalized(v0))

\* the text written in JSONModeString
toStringJSON(v) == <<"\"">> \o String(v) \o <<"\"">>

\* toJSON; the float64 text of JSONModeFloat is not modelled (the empty text
\* stands for it)
toJSON(v, mode) ==
  IF mode = JSONModeFloat THEN << >>
  ELSE IF mode = JSONModeME THEN toMEJSON(v)
  ELSE IF mode = JSONModeCompact
    THEN IF calcStrLen(v) <= jsonMELen(v) THEN toStringJSON(v)
         ELSE toMEJSON(v)
  ELSE toStringJSON(v)

\* a JSON integer literal: an optional minus sign and digits without a
\* leading zero
jsonInteger(s, signed) ==
  LET digits(ds) ==
        /\ Len(ds) > 0
        /\ \A i \in 1..Len(ds) : IsDigit(ds[i])
        /\ (Len(ds) > 1 => ds[1] # "0")
  IN  IF Len(s) > 0 /\ s[1] = "-" THEN signed /\ digits(Tail(s))
      ELSE digits(s)

\* json.Unmarshal into struct{M number; E expType}, for an object written as
\* {"m":<integer>,"e":<integer>}: M must fit uint64 and E must fit int32.
\* The result is [ok, M, E].
unmarshalME(data) ==
  LET bad == [ok |-> FALSE, M |-> << >>, E |-> 0]
      number(ms, es) ==
        IF ~jsonInteger(ms, FALSE) \/ ~jsonInteger(es, TRUE) THEN bad
        ELSE IF ~ParseUint(ms).ok THEN bad
        ELSE IF es[1] = "-" /\ NLt(Two31, DigitsValue(Tail(es))) THEN bad
        ELSE IF es[1] # "-" /\ NLe(Two31, DigitsValue(es)) THEN bad
        ELSE [ok |-> TRUE, M |-> ParseUint(ms).val, E |-> ParseInt(es).val]
      fields(c) ==
        IF SubSeq(data, c, c + Len(jsonParts[2]) - 1) # jsonParts[2] THEN bad
        ELSE number(SubSeq(data, Len(jsonParts[1]) + 1, c - 1),
                    SubSeq(data, c + Len(jsonParts[2]), Len(data) - 1))
      commas(cs) == IF cs = {} THEN bad ELSE fields(SetMin(cs))
  IN  IF Len(data) < jsonLen THEN bad
      ELSE IF SubSeq(data, 1, Len(jsonParts[1])) # jsonParts[1] THEN bad
      ELSE IF data[Len(data)] # jsonParts[3][1] THEN bad
      ELSE commas({i \in 1..(Len(data) - Len(jsonParts[2])) : data[i] = ","})

\* UnmarshalJSON; the result is [v, err, pos, float] as for FromString
UnmarshalJSON(data) ==
  LET object(d) ==
        IF d.ok
          THEN [v |-> FromMantAndExp(d.M, d.E), err |-> "", pos |-> 0,
                float |-> FALSE]
          ELSE [v |-> zero, err |-> "json", pos |-> 0, float |-> FALSE]
  IN  IF Len(data) = 0
        THEN [v |-> zero, err |-> "empty json", pos |-> 0, float |-> FALSE]
      ELSE IF data[1] = "{" THEN object(unmarshalME(data))
      ELSE FromString(data)

---------------------------------------------------------------------------
(* bounded inputs                                                          *)

\* how many neighbours of each boundary value are drawn
Spread == 2
\* how far outside [minExponent, maxExponent] raw exponents are drawn
ExpBeyond == 3

\* the least m for which m*10 no longer fits 64 bits
WrapPoint == <<2,6,1,5,5,9,0,7,3,7,0,4,4,7,6,4,4,8,1>>   \* 1844674407370955162

RawMants ==
  {NatOf(j) : j \in 0..Spread}
    \cup {NSub(maxMantissa, NatOf(j)) : j \in 0..Spread}
    \cup {NAdd(maxMantissa, NatOf(j + 1)) : j \in 0..Spread}
    \cup {NAdd(WrapPoint, NatOf(j)) : j \in 0..Spread}
    \cup {NSub(maxNumber, NatOf(j)) : j \in 0..Spread}
    \cup {pow10(16 + j) : j \in 0..Spread}
    \cup {NatOf(123456)}

RawExps ==
  (minExponent - ExpBeyond)..(minExponent + Spread)
    \cup (-Spread)..Spread
    \cup (maxExponent - Spread)..(maxExponent + ExpBeyond)
    \cup {35, maxExponent + 20, minExponent - 20}

IdleRest ==
  /\ a = zero /\ b = zero /\ prec = 0 /\ txt = << >>
  /\ res = zero /\ rem = zero /\ flag = FALSE /\ ord = 0 /\ err = "" /\ pos = 0
  /\ JSONMode = JSONModeCompact /\ calls = << >>

\* operands: small mantissas 0..SmallMax, powers of ten up to 10^MaxPow,
\* the NearMax+1 largest mantissas, and a few others
SmallMax == 2
MaxPow == 2
NearMax == 1
\* exponents: minExponent, -ExpSpread..ExpSpread, and the ExpSpread+1 largest
ExpSpread == 1
\* precisions -MaxPrec..MaxPrec
MaxPrec == 2

ValMants ==
  {NatOf(j) : j \in 0..SmallMax}
    \cup {pow10(j) : j \in 1..MaxPow}
    \cup {NSub(maxMantissa, NatOf(j)) : j \in 0..NearMax}
    \cup {NatOf(7), NatOf(15), pow10(16)}

ValExps ==
  {minExponent}
    \cup (-ExpSpread)..ExpSpread
    \cup (maxExponent - ExpSpread)..maxExponent

\* every stored word with one of these mantissas and exponents
Values == {fromMantAndExp(mt, ex) : mt \in ValMants, ex \in ValExps}

Precs == (-MaxPrec)..MaxPrec

\* operands of the multiplication and division runs
DivValues ==
  {fromMantAndExp(mt, ex) :
     mt \in {<< >>, <<1>>, <<2>>, <<7>>, <<5, 1>>, maxMantissa},
     ex \in {minExponent, -1, 0, 1, maxExponent}}

\* Values written out and read back: every exponent, the operand mantissas
TextValues ==
  {fromMantAndExp(mt, ex) : mt \in ValMants, ex \in minExponent..maxExponent}

\* decimal inputs are built from up to MaxSig significant digits, a
\* delimiter position, up to MaxLead leading zeros and an optional exponent
\* suffix in -MaxInExp..MaxInExp
MaxSig == 19
MaxLead == 1
MaxInExp == 2

\* two digit patterns: 1234567890123... and 9999...
SigDigits(pat, len) ==
  [i \in 1..len |-> IF pat = 9 THEN "9" ELSE DigitChars[(i % 10) + 1]]

\* digits with the delimiter after the first dp of them (none when dp is
\* not a position of ds)
WithDelim(ds, dp) ==
  IF dp < 0 \/ dp > Len(ds) THEN ds
  ELSE SubSeq(ds, 1, dp) \o <<delim>> \o SubSeq(ds, dp + 1, Len(ds))

ExpSuffixes == {<< >>} \cup {<<"e">> \o Itoa(x) : x \in (-MaxInExp)..MaxInExp}

InputTexts ==
  {zeroStr(lead) \o WithDelim(SigDigits(pat, len), dp) \o suffix :
     lead \in 0..MaxLead,
     pat \in {1, 9},
     len \in (digitsInMaxMantissa - 1)..MaxSig,
     dp \in {-1, 0, 1, 2, digitsInMaxMantissa - 1, digitsInMaxMantissa},
     suffix \in ExpSuffixes}

---------------------------------------------------------------------------
(* constructors                                                            *)

InitCtor ==
  /\ pc = "init"
  /\ mi \in RawMants
  /\ ei \in RawExps
  /\ IdleRest

DoFromMantAndExp ==
  /\ pc = "init"
  /\ res' = FromMantAndExp(mi, ei)
  /\ pc' = "FromMantAndExp"
  /\ UNCHANGED <<a, b, prec, mi, ei, txt, rem, flag, ord, err, pos, JSONMode, calls>>

DoFromUint64 ==
  /\ pc = "init"
  /\ res' = FromUint64(mi)
  /\ pc' = "FromUint64"
  /\ UNCHANGED <<a, b, prec, mi, ei, txt, rem, flag, ord, err, pos, JSONMode, calls>>

NextCtor == DoFromMantAndExp \/ DoFromUint64

SpecCtor == InitCtor /\ [][NextCtor]_vars

---------------------------------------------------------------------------
(* claims about the constructors                                           *)

\* the most decimal digits a uint64 has
MaxDigits == Len(decimalFactorTable)

\* C2: FromMantAndExp(m, e) is Zero, Max, floor(m / 10^k) at exponent e+k,
\* or m*10^k at exponent e-k; the mantissa is never stored with its
\* high-order bits discarded.
C2_DigitsOnlyDropped ==
  pc = "FromMantAndExp" =>
    \/ res = zero
    \/ res = Max
    \/ \E k \in 0..MaxDigits :
         /\ mant(res) = NShr(mi, k)
         /\ exp(res) = ei + k
    \/ \E k \in 0..MaxDigits :
         /\ mant(res) = NShl(mi, k)
         /\ exp(res) = ei - k

\* the least k with e + k >= minExponent and floor(m / 10^k) <= maxMantissa
LeastCut(mt, ex) ==
  CHOOSE k \in 0..(MaxDigits + ExpBeyond + 20) :
    /\ ex + k >= minExponent
    /\ NLe(NShr(mt, k), maxMantissa)
    /\ \A j \in 0..(k - 1) :
         ~(ex + j >= minExponent /\ NLe(NShr(mt, j), maxMantissa))

\* C3: above maxExponent a nonzero m gives (m*10^(e-maxExponent), maxExponent)
\* when that fits maxMantissa and Max otherwise; below minExponent it gives
\* floor(m / 10^k) for the least sufficient k, or Zero when nothing remains;
\* as in unbounded integer arithmetic.
C3_OutOfRangeExponent ==
  pc = "FromMantAndExp" /\ mi # << >> =>
    /\ ei > maxExponent =>
         LET exact == NShl(mi, ei - maxExponent)
         IN  res = IF NLe(exact, maxMantissa)
                     THEN [m |-> exact, e |-> maxExponent]
                     ELSE Max
    /\ ei < minExponent =>
         LET k == LeastCut(mi, ei)
         IN  res = IF NShr(mi, k) = << >> THEN zero
                   ELSE [m |-> NShr(mi, k), e |-> ei + k]

---------------------------------------------------------------------------
(* operations on Values                                                    *)

InitVal ==
  /\ pc = "init"
  /\ a \in Values
  /\ b \in Values
  /\ prec = 0 /\ mi = << >> /\ ei = 0 /\ txt = << >>
  /\ res = zero /\ rem = zero /\ flag = FALSE /\ ord = 0 /\ err = "" /\ pos = 0
  /\ JSONMode = JSONModeCompact /\ calls = << >>

DoNormalized ==
  /\ pc = "init"
  /\ res' = Normalized(a)
  /\ pc' = "Normalized"
  /\ UNCHANGED <<a, b, prec, mi, ei, txt, rem, flag, ord, err, pos, JSONMode, calls>>

DoCmp ==
  /\ pc = "init"
  /\ ord' = Cmp(a, b)
  /\ pc' = "Cmp"
  /\ UNCHANGED <<a, b, prec, mi, ei, txt, res, rem, flag, err, pos, JSONMode, calls>>

DoEq ==
  /\ pc = "init"
  /\ flag' = Eq(a, b)
  /\ pc' = "Eq"
  /\ UNCHANGED <<a, b, prec, mi, ei, txt, res, rem, ord, err, pos, JSONMode, calls>>

DoAdd ==
  /\ pc = "init"
  /\ res' = Add(a, b)
  /\ pc' = "Add"
  /\ UNCHANGED <<a, b, prec, mi, ei, txt, rem, flag, ord, err, pos, JSONMode, calls>>

DoSub ==
  /\ pc = "init"
  /\ \E r \in {Sub(a, b)} : res' = r[1] /\ flag' = r[2]
  /\ pc' = "Sub"
  /\ UNCHANGED <<a, b, prec, mi, ei, txt, rem, ord, err, pos, JSONMode, calls>>

DoMul ==
  /\ pc = "init"
  /\ res' = Mul(a, b)
  /\ pc' = "Mul"
  /\ UNCHANGED <<a, b, prec, mi, ei, txt, rem, flag, ord, err, pos, JSONMode, calls>>

\* DivMod panics on a zero divisor and returns nothing
DoDivMod ==
  /\ pc = "init"
  /\ \E p \in Precs :
       \E d \in {DivMod(a, b, p)} :
         /\ prec' = p
         /\ IF d.panic
              THEN pc' = "panic" /\ UNCHANGED <<res, rem>>
              ELSE pc' = "DivMod" /\ res' = d.quo /\ rem' = d.rem
  /\ UNCHANGED <<a, b, mi, ei, txt, flag, ord, err, pos, JSONMode, calls>>

NextCmp == DoNormalized \/ DoCmp \/ DoEq
SpecCmp == InitVal /\ [][NextCmp]_vars

NextAdd == DoAdd \/ DoSub
SpecAdd == InitVal /\ [][NextAdd]_vars

InitDiv ==
  /\ pc = "init"
  /\ a \in DivValues
  /\ b \in DivValues
  /\ prec = 0 /\ mi = << >> /\ ei = 0 /\ txt = << >>
  /\ res = zero /\ rem = zero /\ flag = FALSE /\ ord = 0 /\ err = "" /\ pos = 0
  /\ JSONMode = JSONModeCompact /\ calls = << >>

NextDiv == DoMul \/ DoDivMod
SpecDiv == InitDiv /\ [][NextDiv]_vars

---------------------------------------------------------------------------
(* claims about comparison, equality and normalisation                     *)

\* the order of m_v * 10^e_v and m_w * 10^e_w over the unbounded integers
NumCmp(v, w) ==
  IF exp(v) >= exp(w)
    THEN NCmp(NShl(mant(v), exp(v) - exp(w)), mant(w))
    ELSE NCmp(mant(v), NShl(mant(w), exp(w) - exp(v)))

\* C6: a.Cmp(b) is -1, 0 or +1 as m_a*10^e_a is less than, equal to or
\* greater than m_b*10^e_b, computed without 64-bit overflow, and it is the
\* negation of b.Cmp(a).
C6_CmpIsNumericOrder ==
  pc = "Cmp" => /\ ord \in {-1, 0, 1}
                /\ ord = NumCmp(a, b)
                /\ ord = -Cmp(b, a)

\* the tie-break multiplication decides between two differently scaled,
\* nonzero operands with the same highest digit position
C6_Case ==
  /\ pc = "Cmp"
  /\ mant(a) # << >> /\ mant(b) # << >>
  /\ exp(a) > exp(b)
  /\ exp(a) + decimalDigits(mant(a)) = exp(b) + decimalDigits(mant(b))
  /\ ord = -1

\* C7: a.Eq(b) is true exactly when a.Cmp(b) = 0, that is exactly when a and
\* b are numerically equal, whatever their scaling, also at MAX_EXP and for
\* zero mantissas stored with different exponents.
C7_EqIffCmpZero ==
  pc = "Eq" => /\ flag <=> (Cmp(a, b) = 0)
               /\ flag <=> (NumCmp(a, b) = 0)

\* two different words, one of them at MAX_EXP, are found equal
C7_Case ==
  /\ pc = "Eq"
  /\ flag
  /\ a # b
  /\ mant(a) # << >>
  /\ exp(b) = maxExponent

\* C8: v.Normalized() is numerically equal to v, is the canonical Zero when
\* v's mantissa is 0, otherwise has a mantissa not divisible by 10 unless its
\* exponent is MAX_EXP, and normalising it again changes nothing.
C8_NormalizedCanonical ==
  pc = "Normalized" =>
    /\ NumCmp(res, a) = 0
    /\ mant(a) = << >> => res = zero
    /\ mant(a) # << >> => (Dig(mant(res), 1) # 0 \/ exp(res) = maxExponent)
    /\ Normalized(res) = res

\* zeros were stripped until the exponent reached MAX_EXP, leaving a mantissa
\* that still ends in a zero
C8_Case ==
  /\ pc = "Normalized"
  /\ res # a
  /\ exp(res) = maxExponent
  /\ mant(res) # << >>
  /\ Dig(mant(res), 1) = 0

---------------------------------------------------------------------------
(* claims about addition                                                   *)

\* C9: a.Add(b) and b.Add(a) are bit-identical, whichever operand has the
\* larger exponent and whether or not the alignment drops digits.
C9_AddCommutes ==
  pc = "Add" => res = Add(b, a)

\* b has the smaller exponent and loses digits when aligned to a
C9_Case ==
  /\ pc = "Add"
  /\ mant(a) # << >> /\ mant(b) # << >>
  /\ exp(a) > exp(b)
  /\ LET q == toEqualExp(mant(a), exp(a), mant(b), exp(b))
     IN  /\ q[2] # << >>
         /\ NShl(q[2], q[3] - exp(b)) # mant(b)

\* C10: with nonzero a and b aligned to the exponent e with mantissas s1 and
\* s2, both at most MAX_MANTISSA, a.Add(b) is (s1+s2, e) when the sum fits
\* MAX_MANTISSA, else Max when e is MAX_EXP, else (floor((s1+s2)/10), e+1)
\* whose mantissa fits; the sum stays below 2^64.
C10_AddWithExpResult ==
  (pc = "Add" /\ mant(a) # << >> /\ mant(b) # << >>) =>
    LET q == toEqualExp(mant(a), exp(a), mant(b), exp(b))
        s == NAdd(q[1], q[2])
    IN  /\ NLe(q[1], maxMantissa) /\ NLe(q[2], maxMantissa)
        /\ NLt(s, Two64)
        /\ IF NLe(s, maxMantissa) THEN res = [m |-> s, e |-> q[3]]
           ELSE IF q[3] = maxExponent THEN res = Max
           ELSE /\ NLe(NShr(s, 1), maxMantissa)
                /\ res = [m |-> NShr(s, 1), e |-> q[3] + 1]

\* the sum exceeds MAX_MANTISSA below MAX_EXP and is divided by ten once
C10_Case ==
  /\ pc = "Add"
  /\ mant(a) # << >> /\ mant(b) # << >>
  /\ LET q == toEqualExp(mant(a), exp(a), mant(b), exp(b))
     IN  /\ NLt(maxMantissa, NAdd(q[1], q[2]))
         /\ q[3] < maxExponent
         /\ exp(res) = q[3] + 1

---------------------------------------------------------------------------
(* claims about division                                                   *)

\* C1: for b with a nonzero mantissa and every precision, the quotient q and
\* remainder r of a.DivMod(b, prec) satisfy
\* b.Mul(q).Add(r).Normalized() = a.Normalized().
C1_DivisionIdentity ==
  pc = "DivMod" => Normalized(Add(Mul(b, res), rem)) = Normalized(a)

---------------------------------------------------------------------------
(* formatting and parsing                                                  *)

InitText ==
  /\ pc = "init"
  /\ a \in TextValues
  /\ b = zero /\ prec = 0 /\ mi = << >> /\ ei = 0 /\ txt = << >>
  /\ res = zero /\ rem = zero /\ flag = FALSE /\ ord = 0 /\ err = "" /\ pos = 0
  /\ JSONMode = JSONModeCompact /\ calls = << >>

DoString ==
  /\ pc = "init"
  /\ txt' = String(a)
  /\ pc' = "String"
  /\ UNCHANGED <<a, b, prec, mi, ei, res, rem, flag, ord, err, pos, JSONMode, calls>>

\* FromString reads the text written by String, or an input text; texts
\* that take the float64 path are outside the model
DoFromString ==
  /\ pc \in {"String", "input"}
  /\ \E r \in {FromString(txt)} :
       /\ ~r.float
       /\ res' = r.v
       /\ err' = r.err
       /\ pos' = r.pos
  /\ pc' = IF pc = "String" THEN "FromString" ELSE "parsed"
  /\ UNCHANGED <<a, b, prec, mi, ei, txt, rem, flag, ord, JSONMode, calls>>

NextText == DoString \/ DoFromString
SpecText == InitText /\ [][NextText]_vars

InitParse ==
  /\ pc = "input"
  /\ txt \in InputTexts
  /\ a = zero /\ b = zero /\ prec = 0 /\ mi = << >> /\ ei = 0
  /\ res = zero /\ rem = zero /\ flag = FALSE /\ ord = 0 /\ err = "" /\ pos = 0
  /\ JSONMode = JSONModeCompact /\ calls = << >>

NextParse == DoFromString
SpecParse == InitParse /\ [][NextParse]_vars

\* C4: for every Value v, FromString(v.String()) succeeds and returns a Value
\* bit-identical to v.Normalized().
C4_StringRoundTrip ==
  pc = "FromString" => err = "" /\ res = Normalized(a)

\* a mantissa ending in zeros at MAX_EXP is written with more than
\* MAX_EXP zeros and read back
C4_Case ==
  /\ pc = "FromString"
  /\ exp(a) = maxExponent
  /\ mant(a) # << >>
  /\ Dig(mant(a), 1) = 0
  /\ Len(txt) > maxExponent + 1
  /\ res = a

\* the significant digits of the input and the exponent of the last of them
SigOf(s) == parseValue(prepareString(s).s)

\* the 17 leading significant digits of the input
KeptOf(s) == DigitsValue(SubSeq(SigOf(s).result, 1, digitsInMaxMantissa))

\* C5: an input with more than 17 significant digits parses to its 17
\* leading digits with the exponent raised by exactly the number of digits
\* dropped, whether the exponent before truncation is negative, zero or
\* positive (stated for inputs whose 17 leading digits fit MAX_MANTISSA).
C5_TruncationKeepsScale ==
  (/\ pc = "parsed"
   /\ Len(SigOf(txt).result) > digitsInMaxMantissa
   /\ NLe(KeptOf(txt), maxMantissa)) =>
    LET sig == SigOf(txt)
        dropped == Len(sig.result) - digitsInMaxMantissa
    IN  /\ err = ""
        /\ NumCmp(res, [m |-> KeptOf(txt), e |-> sig.e + dropped]) = 0

---------------------------------------------------------------------------
(* claims about multiplication                                             *)

\* 2^MulPow and 5^MulPow are operands: both are normalized mantissas and
\* their product 10^MulPow exceeds maxMantissa
MulPow == 17

RECURSIVE NPow(_, _)
NPow(x, k) == IF k = 0 THEN <<1>> ELSE NMul(x, NPow(x, k - 1))

MulMants ==
  {<< >>, <<1>>, <<2>>, <<5>>, <<1, 1>>, <<5, 1>>, pow10(1),
   NPow(<<2>>, MulPow), NPow(<<5>>, MulPow), maxMantissa}

MulExps == {minExponent, -1, 0, 1, maxExponent - 1, maxExponent}

MulValues == {fromMantAndExp(mt, ex) : mt \in MulMants, ex \in MulExps}

InitMul ==
  /\ pc = "init"
  /\ a \in MulValues
  /\ b \in MulValues
  /\ prec = 0 /\ mi = << >> /\ ei = 0 /\ txt = << >>
  /\ res = zero /\ rem = zero /\ flag = FALSE /\ ord = 0 /\ err = "" /\ pos = 0
  /\ JSONMode = JSONModeCompact /\ calls = << >>

NextMul == DoMul
SpecMul == InitMul /\ [][NextMul]_vars

\* the order of m1*10^e1 and m2*10^e2 over the unbounded integers
ExactCmp(m1, e1, m2, e2) ==
  IF m1 = << >> \/ m2 = << >> THEN NCmp(m1, m2)
  ELSE IF Len(m1) + e1 > Len(m2) + e2 THEN 1
  ELSE IF Len(m1) + e1 < Len(m2) + e2 THEN -1
  ELSE IF e1 >= e2 THEN NCmp(NShl(m1, e1 - e2), m2)
  ELSE NCmp(m1, NShl(m2, e2 - e1))

\* m*10^e is m2*10^ex for a mantissa m2 <= maxMantissa
FitsAt(m, e, ex) ==
  IF ex <= e
    THEN /\ Len(m) + e - ex <= Len(maxMantissa)
         /\ NLe(NShl(m, e - ex), maxMantissa)
    ELSE /\ ex - e < Len(m)
         /\ \A i \in 1..(ex - e) : m[i] = 0
         /\ NLe(NShr(m, ex - e), maxMantissa)

\* the nonzero number m*10^e is the number of some Value
Representable(m, e) ==
  m # << >> /\ \E ex \in minExponent..maxExponent : FitsAt(m, e, ex)

\* C11: a.Mul(b) never exceeds the exact product m_a*m_b*10^(e_a+e_b),
\* equals it whenever the product is representable, is Zero when an operand
\* is zero or the product is below the smallest positive Value, and is
\* bit-identical to b.Mul(a).
C11_MulExactProduct ==
  pc = "Mul" =>
    LET p == NMul(mant(a), mant(b))
        e == exp(a) + exp(b)
    IN  /\ ExactCmp(mant(res), exp(res), p, e) <= 0
        /\ Representable(p, e) => ExactCmp(mant(res), exp(res), p, e) = 0
        /\ (p = << >> \/ ExactCmp(p, e, minMantissa, minExponent) < 0)
             => res = zero
        /\ res = Mul(b, a)

\* C12: for every v that is numerically at least 1, Max.Mul(v) and
\* v.Mul(Max) are both Max.
C12_MaxTimesAtLeastOne ==
  (pc = "Mul" /\ a = Max /\ ExactCmp(mant(b), exp(b), <<1>>, 0) >= 0) =>
    res = Max /\ Mul(b, a) = Max

---------------------------------------------------------------------------
(* claims about the quotient of DivMod                                     *)

\* m*10^e is a whole number of units of 10^(-p)
MultipleOf(m, e, p) ==
  \/ m = << >>
  \/ e + p >= 0
  \/ \A i \in 1..(-(e + p)) : Dig(m, i) = 0

\* the exact quotient v / w in units of 10^(-p), rounded down:
\* floor(m_v * 10^(e_v - e_w + p) / m_w), for a nonzero m_w
FloorUnits(v, w, p) ==
  LET shifted(s) ==
        IF s >= 0 THEN NDiv(NShl(mant(v), s), mant(w))
        ELSE NDiv(mant(v), NShl(mant(w), -s))
  IN  shifted(exp(v) - exp(w) + p)

\* C13: the quotient q of a.DivMod(b, prec) is a multiple of 10^(-prec), is
\* at most a/b, and is floor(a/b * 10^prec) * 10^(-prec) whenever that number
\* is representable, also when the scaled division leaves no remainder.
C13_QuotientIsFloor ==
  pc = "DivMod" =>
    LET f == FloorUnits(a, b, prec)
    IN  /\ MultipleOf(mant(res), exp(res), prec)
        /\ ExactCmp(NMul(mant(res), mant(b)), exp(res) + exp(b),
                    mant(a), exp(a)) <= 0
        /\ (f = << >> \/ Representable(f, -prec))
             => ExactCmp(mant(res), exp(res), f, -prec) = 0

---------------------------------------------------------------------------
(* division by zero                                                        *)

\* Signed is a Value with a sign flag
NewSigned(v, neg) == [Neg |-> neg, V |-> v]

PosValue(v) == NewSigned(v, FALSE)

Sign(s) == IF IsZero(s.V) THEN 0 ELSE IF s.Neg THEN -1 ELSE 1

\* Signed.Div; the result is [quo, panic, float]
SignedDiv(s, other) ==
  LET signed(d) ==
        [quo |-> NewSigned(d.quo, s.Neg # other.Neg), panic |-> d.panic,
         float |-> d.float]
  IN  signed(Div(s.V, other.V))

\* Signed.DivMod; the result is [quo, rem, panic]
SignedDivMod(s, other, prc) ==
  LET signed(d) ==
        [quo |-> NewSigned(d.quo, s.Neg # other.Neg),
         rem |-> NewSigned(d.rem, Sign(s) < 0), panic |-> d.panic]
  IN  signed(DivMod(s.V, other.V, prc))

\* Signed.DivValue; the result is [quo, panic, float]
DivValue(s, v) ==
  LET signed(d) ==
        [quo |-> NewSigned(d.quo, s.Neg), panic |-> d.panic, float |-> d.float]
  IN  signed(Div(s.V, v))

\* Signed.DivModValue
DivModValue(s, other, prc) == SignedDivMod(s, PosValue(other), prc)

\* dividends and divisors: zero mantissas stored with every exponent drawn
FaultValues ==
  {fromMantAndExp(mt, ex) :
     mt \in {<< >>, <<1>>, <<7>>, maxMantissa},
     ex \in {minExponent, 0, maxExponent}}

InitFault ==
  /\ pc = "init"
  /\ a \in FaultValues
  /\ b \in FaultValues
  /\ prec = 0 /\ mi = << >> /\ ei = 0 /\ txt = << >>
  /\ res = zero /\ rem = zero /\ flag = FALSE /\ ord = 0 /\ err = "" /\ pos = 0
  /\ JSONMode = JSONModeCompact /\ calls = << >>

\* a quotient computed by float64Div is not modelled: pc records "float"
\* and res keeps its value
DoDiv ==
  /\ pc = "init"
  /\ \E d \in {Div(a, b)} :
       IF d.panic THEN pc' = "panic" /\ UNCHANGED res
       ELSE IF d.float THEN pc' = "float" /\ UNCHANGED res
       ELSE pc' = "Div" /\ res' = d.quo
  /\ UNCHANGED <<a, b, prec, mi, ei, txt, rem, flag, ord, err, pos, JSONMode, calls>>

\* the signed operations take a and b with either sign; res and rem are
\* Signed values
DoSignedDiv ==
  /\ pc = "init"
  /\ \E sn \in BOOLEAN, on \in BOOLEAN :
       \E d \in {SignedDiv(NewSigned(a, sn), NewSigned(b, on))} :
         IF d.panic THEN pc' = "panic" /\ UNCHANGED res
         ELSE IF d.float THEN pc' = "float" /\ UNCHANGED res
         ELSE pc' = "SignedDiv" /\ res' = d.quo
  /\ UNCHANGED <<a, b, prec, mi, ei, txt, rem, flag, ord, err, pos, JSONMode, calls>>

DoSignedDivMod ==
  /\ pc = "init"
  /\ \E p \in Precs, sn \in BOOLEAN, on \in BOOLEAN :
       \E d \in {SignedDivMod(NewSigned(a, sn), NewSigned(b, on), p)} :
         /\ prec' = p
         /\ IF d.panic
              THEN pc' = "panic" /\ UNCHANGED <<res, rem>>
              ELSE pc' = "SignedDivMod" /\ res' = d.quo /\ rem' = d.rem
  /\ UNCHANGED <<a, b, mi, ei, txt, flag, ord, err, pos, JSONMode, calls>>

DoDivValue ==
  /\ pc = "init"
  /\ \E sn \in BOOLEAN :
       \E d \in {DivValue(NewSigned(a, sn), b)} :
         IF d.panic THEN pc' = "panic" /\ UNCHANGED res
         ELSE IF d.float THEN pc' = "float" /\ UNCHANGED res
         ELSE pc' = "DivValue" /\ res' = d.quo
  /\ UNCHANGED <<a, b, prec, mi, ei, txt, rem, flag, ord, err, pos, JSONMode, calls>>

DoDivModValue ==
  /\ pc = "init"
  /\ \E p \in Precs, sn \in BOOLEAN :
       \E d \in {DivModValue(NewSigned(a, sn), b, p)} :
         /\ prec' = p
         /\ IF d.panic
              THEN pc' = "panic" /\ UNCHANGED <<res, rem>>
              ELSE pc' = "DivModValue" /\ res' = d.quo /\ rem' = d.rem
  /\ UNCHANGED <<a, b, mi, ei, txt, flag, ord, err, pos, JSONMode, calls>>

NextFault ==
  \/ DoDiv
  \/ DoDivMod
  \/ DoSignedDiv
  \/ DoSignedDivMod
  \/ DoDivValue
  \/ DoDivModValue

SpecFault == InitFault /\ [][NextFault]_vars

\* C14: each of Value.Div, Value.DivMod, Signed.Div, Signed.DivMod, DivValue
\* and DivModValue panics exactly when the divisor's mantissa is 0, whatever
\* the divisor's stored exponent and whatever the dividend.
C14_PanicIffZeroDivisor ==
  pc # "init" => ((pc = "panic") <=> (mant(b) = << >>))

\* a zero dividend divided by a zero mantissa stored with a nonzero exponent
C14_Case ==
  /\ pc = "panic"
  /\ mant(a) = << >>
  /\ mant(b) = << >>
  /\ exp(b) = maxExponent

---------------------------------------------------------------------------
(* rounding to a precision                                                 *)

Round(v, prc) ==
  LET store(r) == adjustMantExp(r[1], r[2])
  IN  store(round(mant(v), exp(v), prc, modeRound))

Ceil(v, prc) ==
  LET store(r) == adjustMantExp(r[1], r[2])
  IN  store(round(mant(v), exp(v), prc, modeCeil))

\* the values rounded: mantissas of one to three digits and the largest
\* one, at exponents on both sides of every precision drawn
RoundMants ==
  {<< >>, <<1>>, <<5>>, <<7>>, <<5, 1>>, <<9, 4, 1>>, <<1, 5, 1>>,
   <<6, 5, 4, 3, 2, 1>>, maxMantissa}

RoundExps == {minExponent, -3, -2, -1, 0, 1, 2, maxExponent}

RoundValues == {fromMantAndExp(mt, ex) : mt \in RoundMants, ex \in RoundExps}

InitRound ==
  /\ pc = "init"
  /\ a \in RoundValues
  /\ b = zero /\ prec = 0 /\ mi = << >> /\ ei = 0 /\ txt = << >>
  /\ res = zero /\ rem = zero /\ flag = FALSE /\ ord = 0 /\ err = "" /\ pos = 0
  /\ JSONMode = JSONModeCompact /\ calls = << >>

DoFloor ==
  /\ pc = "init"
  /\ \E p \in Precs : prec' = p /\ res' = Floor(a, p)
  /\ pc' = "Floor"
  /\ UNCHANGED <<a, b, mi, ei, txt, rem, flag, ord, err, pos, JSONMode, calls>>

DoRound ==
  /\ pc = "init"
  /\ \E p \in Precs : prec' = p /\ res' = Round(a, p)
  /\ pc' = "Round"
  /\ UNCHANGED <<a, b, mi, ei, txt, rem, flag, ord, err, pos, JSONMode, calls>>

DoCeil ==
  /\ pc = "init"
  /\ \E p \in Precs : prec' = p /\ res' = Ceil(a, p)
  /\ pc' = "Ceil"
  /\ UNCHANGED <<a, b, mi, ei, txt, rem, flag, ord, err, pos, JSONMode, calls>>

NextRound == DoFloor \/ DoRound \/ DoCeil
SpecRound == InitRound /\ [][NextRound]_vars

\* v in units of 10^(-p), rounded down: floor(m_v * 10^(e_v + p))
UnitsBelow(v, p) ==
  IF exp(v) + p >= 0 THEN NShl(mant(v), exp(v) + p)
  ELSE NShr(mant(v), -(exp(v) + p))

\* the part of m_v below the unit 10^(-p), as a number of 10^e_v
Discarded(v, p) ==
  IF exp(v) + p >= 0 THEN << >>
  ELSE StripHi(SubSeq(mant(v), 1,
                      IF -(exp(v) + p) > Len(mant(v)) THEN Len(mant(v))
                      ELSE -(exp(v) + p)))

\* C15: v.Floor(prec) is the greatest multiple of 10^(-prec) that is at most
\* v, for negative, zero and positive stored exponents and precisions; it is
\* numerically v when v is such a multiple, and flooring again changes
\* nothing.
C15_FloorIsGreatestMultiple ==
  pc = "Floor" =>
    /\ ExactCmp(mant(res), exp(res), UnitsBelow(a, prec), -prec) = 0
    /\ MultipleOf(mant(a), exp(a), prec)
         => ExactCmp(mant(res), exp(res), mant(a), exp(a)) = 0
    /\ Floor(res, prec) = res

\* the least multiple of 10^(-p) that is at least v, in units of 10^(-p)
UnitsAbove(v, p) ==
  IF Discarded(v, p) = << >> THEN UnitsBelow(v, p)
  ELSE NAdd(UnitsBelow(v, p), <<1>>)

\* C16: v.Ceil(prec) is the least multiple of 10^(-prec) that is at least v,
\* or Max when that multiple exceeds Max; so v.Ceil(prec).Cmp(v) >= 0.
C16_CeilIsLeastMultiple ==
  pc = "Ceil" =>
    /\ IF ExactCmp(UnitsAbove(a, prec), -prec, maxMantissa, maxExponent) > 0
         THEN res = Max
         ELSE ExactCmp(mant(res), exp(res), UnitsAbove(a, prec), -prec) = 0
    /\ Cmp(res, a) >= 0

\* the multiple of 10^(-p) nearest to v, the lower one on a tie, in units of
\* 10^(-p): one more than UnitsBelow when twice the discarded part exceeds
\* the unit
UnitsNearest(v, p) ==
  IF ExactCmp(NMulDig(Discarded(v, p), 2), exp(v), <<1>>, -p) > 0
    THEN NAdd(UnitsBelow(v, p), <<1>>)
    ELSE UnitsBelow(v, p)

\* C17: v.Round(prec) is a multiple of 10^(-prec): v.Floor(prec) when the
\* discarded part of v is at most half of 10^(-prec), and one unit more when
\* it is greater than half.
C17_RoundIsNearestMultiple ==
  pc = "Round" =>
    /\ MultipleOf(mant(res), exp(res), prec)
    /\ ExactCmp(mant(res), exp(res), UnitsNearest(a, prec), -prec) = 0

---------------------------------------------------------------------------
(* claims about subtraction                                                *)

\* C18: a.Sub(b) is (d, neg) where neg holds exactly when a is numerically
\* smaller than b (a.Cmp(b) < 0) and d is the absolute difference of the two
\* operands aligned to one exponent (the other operand when one is zero, a
\* zero mantissa when a equals b); when a and b are numerically different
\* b.Sub(a) is the same d with the opposite flag.
C18_SubAbsoluteDifference ==
  pc = "Sub" =>
    /\ flag <=> (Cmp(a, b) < 0)
    /\ flag <=> (NumCmp(a, b) < 0)
    /\ IF mant(b) = << >> THEN res = (IF mant(a) = << >> THEN zero ELSE a)
       ELSE IF mant(a) = << >> THEN res = b
       ELSE LET q == toEqualExp(mant(a), exp(a), mant(b), exp(b))
            IN  res = [m |-> IF NLe(q[2], q[1]) THEN NSub(q[1], q[2])
                             ELSE NSub(q[2], q[1]),
                       e |-> q[3]]
    /\ NumCmp(a, b) = 0 => mant(res) = << >>
    /\ NumCmp(a, b) # 0 => Sub(b, a) = <<res, ~flag>>

\* a is the smaller operand, has the smaller exponent and loses digits when
\* it is aligned to b; the difference is not zero
C18_Case ==
  /\ pc = "Sub"
  /\ flag
  /\ mant(a) # << >> /\ mant(b) # << >>
  /\ exp(a) < exp(b)
  /\ mant(res) # << >>
  /\ LET q == toEqualExp(mant(a), exp(a), mant(b), exp(b))
     IN  /\ q[1] # << >>
         /\ NShl(q[1], q[3] - exp(a)) # mant(a)

---------------------------------------------------------------------------
(* JSON encodings                                                          *)

InitJSON ==
  /\ pc = "init"
  /\ a \in TextValues
  /\ b = zero /\ prec = 0 /\ mi = << >> /\ ei = 0 /\ txt = << >>
  /\ res = zero /\ rem = zero /\ flag = FALSE /\ ord = 0 /\ err = "" /\ pos = 0
  /\ JSONMode = JSONModeCompact /\ calls = << >>

\* a call in flight has seen every mode that JSONMode holds while it runs
seenBy(call, mode) ==
  IF call.at \in {"called", "encoding"}
    THEN [call EXCEPT !.seen = @ \cup {mode}]
    ELSE call

\* the program sets JSONMode, before it marshals or while calls are in
\* flight; JSONModeFloat is not drawn
SetJSONMode ==
  /\ pc = "init"
  /\ \E mode \in {JSONModeString, JSONModeME, JSONModeCompact} :
       /\ JSONMode' = mode
       /\ calls' = [p \in 1..Len(calls) |-> seenBy(calls[p], mode)]
  /\ UNCHANGED <<pc, a, b, prec, mi, ei, txt, res, rem, flag, ord, err, pos>>

DoMarshalJSON ==
  /\ pc = "init"
  /\ txt' = toJSON(a, JSONMode)
  /\ pc' = "MarshalJSON"
  /\ UNCHANGED <<a, b, prec, mi, ei, res, rem, flag, ord, err, pos, JSONMode, calls>>

\* a text handed on to strconv.ParseFloat ends in "float": its value is not
\* modelled
DoUnmarshalJSON ==
  /\ pc = "MarshalJSON"
  /\ \E r \in {UnmarshalJSON(txt)} :
       IF r.float THEN pc' = "float" /\ UNCHANGED <<res, err, pos>>
       ELSE /\ pc' = "UnmarshalJSON"
            /\ res' = r.v
            /\ err' = r.err
            /\ pos' = r.pos
  /\ UNCHANGED <<a, b, prec, mi, ei, txt, rem, flag, ord, JSONMode, calls>>

NextJSON == SetJSONMode \/ DoMarshalJSON \/ DoUnmarshalJSON
SpecJSON == InitJSON /\ [][NextJSON]_vars

\* C19: in each of JSONModeString, JSONModeME and JSONModeCompact,
\* UnmarshalJSON of the bytes written by MarshalJSON succeeds and gives a
\* Value bit-identical to v.Normalized().
C19_JSONRoundTrip ==
  pc \in {"UnmarshalJSON", "float"} =>
    /\ pc = "UnmarshalJSON"
    /\ err = ""
    /\ res = Normalized(a)

\* a value that is not normalized, written as an object and read back
C19_Case ==
  /\ pc = "UnmarshalJSON"
  /\ JSONMode = JSONModeME
  /\ txt[1] = "{"
  /\ mant(a) # << >>
  /\ a # Normalized(a)
  /\ exp(a) < 0
  /\ res = Normalized(a)

\* C20: in JSONModeCompact MarshalJSON writes, byte for byte, the shorter of
\* the texts written in JSONModeString and in JSONModeME (the string text
\* when they are equally long).
C20_CompactIsShorter ==
  (pc = "MarshalJSON" /\ JSONMode = JSONModeCompact /\ calls = << >>) =>
    txt = IF Len(toJSON(a, JSONModeString)) <= Len(toJSON(a, JSONModeME))
            THEN toJSON(a, JSONModeString)
            ELSE toJSON(a, JSONModeME)

\* C21: marshalling FromMantAndExp(0, 0) writes "0" (quoted) in
\* JSONModeString, {"m":0,"e":0} in JSONModeME and "0" (quoted) in
\* JSONModeCompact (the float64 text of JSONModeFloat is not modelled).
C21_ZeroEncodings ==
  (pc = "MarshalJSON" /\ a = FromMantAndExp(<< >>, 0)) =>
    txt = IF JSONMode = JSONModeME
            THEN <<"{", "\"", "m", "\"", ":", "0", ",", "\"", "e", "\"", ":",
                   "0", "}">>
            ELSE <<"\"", "0", "\"">>

---------------------------------------------------------------------------
(* rejected inputs of FromString                                           *)

MaxBody == 3
MaxSpaces == 3

Spaces(n) == [i \in 1..n |-> " "]

\* the characters of the rejected inputs: digits, the delimiter, a sign, a
\* letter outside the grammar and the exponent letter
BodyChars == {"0", "1", ".", "-", "x", "e"}

Bodies == UNION {[1..len -> BodyChars] : len \in 0..MaxBody}

\* an optional quote, spaces and an optional sign before the body; spaces
\* and an optional quote after it
RejectTexts ==
  {quote \o Spaces(sp) \o sign \o body \o trail \o closing :
     quote \in {<< >>, <<"\"">>},
     sp \in 0..MaxSpaces,
     sign \in {<< >>, <<"+">>, <<"-">>},
     body \in Bodies,
     trail \in {<< >>, <<" ">>},
     closing \in {<< >>, <<"\"">>}}

InitReject ==
  /\ pc = "input"
  /\ txt \in RejectTexts
  /\ a = zero /\ b = zero /\ prec = 0 /\ mi = << >> /\ ei = 0
  /\ res = zero /\ rem = zero /\ flag = FALSE /\ ord = 0 /\ err = "" /\ pos = 0
  /\ JSONMode = JSONModeCompact /\ calls = << >>

NextReject == DoFromString
SpecReject == InitReject /\ [][NextReject]_vars

\* the 1-based positions of the original input between which the number is
\* written: after a leading quote, the leading spaces and one sign, and
\* before the trailing spaces and a closing quote
BodyLast(t) ==
  LET q == IF Len(t) > 0 /\ t[1] = "\"" THEN 1 ELSE 0
      e1 == IF Len(t) > q /\ t[Len(t)] = "\"" THEN Len(t) - 1 ELSE Len(t)
      inked == {i \in (q + 1)..e1 : ~IsSpace(t[i])}
  IN  IF inked = {} THEN 0 ELSE SetMax(inked)

BodyFirst(t) ==
  LET q == IF Len(t) > 0 /\ t[1] = "\"" THEN 1 ELSE 0
      inked == {i \in (q + 1)..BodyLast(t) : ~IsSpace(t[i])}
      first == IF inked = {} THEN Len(t) + 1 ELSE SetMin(inked)
  IN  IF first <= Len(t) /\ t[first] \in {"+", "-"} THEN first + 1 ELSE first

\* the characters that the grammar does not allow where they stand: a
\* character that is no digit, delimiter or exponent letter, and a second
\* delimiter, before the exponent letter
Offenders(t) ==
  {k \in BodyFirst(t)..BodyLast(t) :
     /\ \A j \in BodyFirst(t)..(k - 1) : t[j] # "e"
     /\ \/ ~IsDigit(t[k]) /\ t[k] # "e" /\ t[k] # delim
        \/ t[k] = delim /\ \E j \in BodyFirst(t)..(k - 1) : t[j] = delim}

SpacesAndMinuses == <<" ", " ", " ", "-", "-">>

\* C23 as stated: FromString of three spaces followed by two '-' fails with
\* a position-carrying parse error at the 1-based position of the second '-'.
C23_SecondMinusPosition ==
  (pc = "parsed" /\ txt = SpacesAndMinuses) =>
    err = "parsing failed" /\ pos = 5

\* C23: FromString of three spaces followed by two '-' fails with the error
\* "negative value", which carries no position: the first '-' is taken as
\* the sign and the input is rejected before the second '-' is scanned.
C23_NegativeValue ==
  (pc = "parsed" /\ txt = SpacesAndMinuses) =>
    err = "negative value" /\ pos = 0

C23_Case ==
  /\ pc = "parsed"
  /\ txt = SpacesAndMinuses
  /\ err # ""
  /\ res = zero

---------------------------------------------------------------------------
(* changing the exponent, conversion to uint64                             *)

\* ToExp; panic is TRUE when maxMantissa/(m) divides by zero
ToExp(v, ex) ==
  LET ret(r) == [v |-> r, panic |-> FALSE]
      scaled(m, diff, p) ==
        IF p = << >> THEN ret(fromMantAndExp(<< >>, ex))
        ELSE IF diff > 0 THEN
          IF m = << >> THEN [v |-> zero, panic |-> TRUE]
          ELSE IF NLt(NDiv(maxMantissa, m), p)
            THEN ret(fromMantAndExp(maxMantissa, ex))
          ELSE ret(fromMantAndExp(U64(NMul(m, p)), ex))
        ELSE ret(fromMantAndExp(NDiv(m, p), ex))
  IN  IF ex > maxExponent THEN ret(Max)
      ELSE IF ex < minExponent THEN ret(fromMantAndExp(<< >>, minExponent))
      ELSE IF exp(v) - ex = 0 THEN ret(v)
      ELSE scaled(mant(v), exp(v) - ex, pow10(abs(exp(v) - ex)))

trailingZeros(value) ==
  IF value = << >> THEN 1
  ELSE SetMin({i \in 1..Len(value) : value[i] # 0}) - 1

\* a toUint64 that does not compare the product with maxMantissa
toUint64Unchecked(v0) ==
  LET ret(u, exact) == [value |-> u, exact |-> exact]
      scaled(m, e, p) ==
        IF p = << >> THEN ret(maxMantissa, FALSE)
        ELSE IF e < 0 THEN ret(NDiv(m, p), trailingZeros(m) >= -e)
        ELSE ret(U64(NMul(m, p)), TRUE)
      normal(v) ==
        IF mant(v) = << >> THEN ret(<< >>, TRUE)
        ELSE IF exp(v) = 0 THEN ret(mant(v), TRUE)
        ELSE scaled(mant(v), exp(v), pow10(abs(exp(v))))
  IN  normal(Normalized(v0))

toUint64(v0) ==
  LET ret(u, exact) == [value |-> u, exact |-> exact]
      whole(m, e, p, intPart, frac, e2) ==
        IF e2 > e
             \/ (e2 = e /\ NLe(NSub(maxMantissa, frac), U64(NMul(intPart, m))))
          THEN ret(U64(NMul(m, p)), TRUE)
          ELSE ret(maxMantissa, FALSE)
      scaled(m, e, p) ==
        IF p = << >> THEN ret(maxMantissa, FALSE)
        ELSE IF e < 0 THEN ret(NDiv(m, p), trailingZeros(m) >= -e)
        ELSE whole(m, e, p, NDiv(maxMantissa, m), NMod(maxMantissa, m),
                   decimalDigits(NDiv(maxMantissa, m)) - 1)
      normal(v) ==
        IF mant(v) = << >> THEN ret(<< >>, TRUE)
        ELSE IF exp(v) = 0 THEN ret(mant(v), TRUE)
        ELSE scaled(mant(v), exp(v), pow10(abs(exp(v))))
  IN  normal(Normalized(v0))

Uint64(v) == toUint64(v).value

\* operands: mantissas around the powers of ten and MAX_MANTISSA, exponents
\* whose gaps reach past the 19 of decimalFactorTable
ScaleGap == 20

ScaleMants ==
  {<< >>, <<1>>, <<7>>, <<0, 2, 1>>, NPow(<<0, 1>>, 16),
   NAdd(NDiv(maxMantissa, <<0, 1>>), <<1>>), maxMantissa}

ScaleExps ==
  {minExponent, -ScaleGap, -3, -1, 0, 1, 2, digitsInMaxMantissa, ScaleGap,
   maxExponent}

\* the Values that FromMantAndExp returns for them
ScaleValues == {FromMantAndExp(mt, ex) : mt \in ScaleMants, ex \in ScaleExps}

\* target exponents of ToExp, one beyond the range at either end
TargetExps == ScaleExps \cup {minExponent - 1, maxExponent + 1}

InitScale ==
  /\ pc = "init"
  /\ a \in ScaleValues
  /\ b = zero /\ prec = 0 /\ mi = << >> /\ ei = 0 /\ txt = << >>
  /\ res = zero /\ rem = zero /\ flag = FALSE /\ ord = 0 /\ err = "" /\ pos = 0
  /\ JSONMode = JSONModeCompact /\ calls = << >>

DoToExp ==
  /\ pc = "init"
  /\ \E target \in TargetExps :
       /\ ei' = target
       /\ \E r \in {ToExp(a, target)} :
            IF r.panic THEN pc' = "panic" /\ UNCHANGED res
            ELSE pc' = "ToExp" /\ res' = r.v
  /\ UNCHANGED <<a, b, prec, mi, txt, rem, flag, ord, err, pos, JSONMode, calls>>

DoUint64 ==
  /\ pc = "init"
  /\ mi' = Uint64(a)
  /\ flag' = toUint64(a).exact
  /\ pc' = "Uint64"
  /\ UNCHANGED <<a, b, prec, ei, txt, res, rem, ord, err, pos, JSONMode, calls>>

\* the result of ToExp is the operand of the next call
NextCall ==
  /\ pc = "ToExp"
  /\ a' = res
  /\ pc' = "init"
  /\ res' = zero
  /\ ei' = 0
  /\ UNCHANGED <<b, prec, mi, txt, rem, flag, ord, err, pos, JSONMode, calls>>

NextScale == DoToExp \/ DoUint64 \/ NextCall
SpecScale == InitScale /\ [][NextScale]_vars

\* the mantissa that represents m * 10^e at the exponent ex: the product
\* when refining, MAX_MANTISSA when the product does not fit, the floor of
\* the quotient when coarsening
MantAt(m, e, ex) ==
  IF e >= ex
    THEN IF NLe(NShl(m, e - ex), maxMantissa) THEN NShl(m, e - ex)
         ELSE maxMantissa
    ELSE NShr(m, ex - e)

\* C24: for every Value v = (m, e) and every target exponent within
\* [MIN_EXP, MAX_EXP], v.ToExp(exp) has the stored exponent exp and the
\* mantissa m * 10^(e - exp) when refining and the product fits,
\* MAX_MANTISSA when refining overflows (for every gap, also above 19), and
\* floor(m / 10^(exp - e)) when coarsening.
C24_ToExpMantissa ==
  (pc \in {"ToExp", "panic"} /\ ei >= minExponent /\ ei <= maxExponent) =>
    /\ pc = "ToExp"
    /\ exp(res) = ei
    /\ mant(res) = MantAt(mant(a), exp(a), ei)

\* v is numerically an integer that is at most bound
IntegerUpTo(v, bound) ==
  IF mant(v) = << >> THEN TRUE
  ELSE IF exp(v) >= 0 THEN NLe(NShl(mant(v), exp(v)), bound)
  ELSE /\ NShl(NShr(mant(v), -exp(v)), -exp(v)) = mant(v)
       /\ NLe(NShr(mant(v), -exp(v)), bound)

\* C25 as stated: toUint64 returns exact = true if and only if v is
\* numerically an integer representable as uint64, and then
\* FromUint64(u).Normalized() == v.Normalized(); Uint64() returns the same u.
C25_ExactIffUint64 ==
  pc = "Uint64" =>
    /\ flag <=> IntegerUpTo(a, maxNumber)
    /\ flag => Normalized(FromUint64(mi)) = Normalized(a)
    /\ mi = toUint64(a).value

\* C25: toUint64 returns exact = true if and only if v is numerically an
\* integer that is at most MAX_MANTISSA (a larger integer gives MAX_MANTISSA
\* and exact = false, also when it fits uint64), and then
\* FromUint64(u).Normalized() == v.Normalized(); Uint64() returns the same u.
C25_ExactIffMantissa ==
  pc = "Uint64" =>
    /\ flag <=> IntegerUpTo(a, maxMantissa)
    /\ flag => Normalized(FromUint64(mi)) = Normalized(a)
    /\ ~flag /\ exp(Normalized(a)) > 0 => mi = maxMantissa
    /\ mi = toUint64(a).value

\* an integer above MAX_MANTISSA that fits uint64
C25_Case ==
  /\ pc = "Uint64"
  /\ ~flag
  /\ mi = maxMantissa
  /\ ~IntegerUpTo(a, maxMantissa)
  /\ IntegerUpTo(a, maxNumber)

---------------------------------------------------------------------------
(* addition of Signed values                                               *)

signedZero == NewSigned(zero, FALSE)

\* a Signed.Add that keeps the sign of the receiver
SignedAddKeepSign(s, other) ==
  IF s.Neg = other.Neg THEN NewSigned(Add(s.V, other.V), s.Neg)
  ELSE IF ~s.Neg THEN NewSigned(Sub(s.V, other.V)[1], s.Neg)
  ELSE NewSigned(Sub(other.V, s.V)[1], s.Neg)

SignedAdd(s, other) ==
  LET signed(d) == NewSigned(d[1], d[2])
  IN  IF s.Neg = other.Neg THEN NewSigned(Add(s.V, other.V), s.Neg)
      ELSE IF ~s.Neg THEN signed(Sub(s.V, other.V))
      ELSE signed(Sub(other.V, s.V))

SignedNormalized(s) ==
  IF IsZero(s.V) THEN signedZero ELSE NewSigned(Normalized(s.V), s.Neg)

SignedMants ==
  {<< >>, <<1>>, <<2>>, <<7>>, <<5, 1>>, NSub(maxMantissa, <<1>>),
   maxMantissa}

SignedExps == {minExponent, -1, 0, 1, maxExponent}

SignedValues ==
  {NewSigned(fromMantAndExp(mt, ex), neg) :
     mt \in SignedMants, ex \in SignedExps, neg \in BOOLEAN}

InitSigned ==
  /\ pc = "init"
  /\ a \in SignedValues
  /\ b \in SignedValues
  /\ prec = 0 /\ mi = << >> /\ ei = 0 /\ txt = << >>
  /\ res = signedZero /\ rem = zero /\ flag = FALSE /\ ord = 0 /\ err = ""
  /\ pos = 0
  /\ JSONMode = JSONModeCompact /\ calls = << >>

DoSignedAdd ==
  /\ pc = "init"
  /\ res' = SignedAdd(a, b)
  /\ pc' = "SignedAdd"
  /\ UNCHANGED <<a, b, prec, mi, ei, txt, rem, flag, ord, err, pos, JSONMode, calls>>

NextSigned == DoSignedAdd
SpecSigned == InitSigned /\ [][NextSigned]_vars

\* C26: a.Add(b) has the magnitude |a|+|b| and the common sign when both Neg
\* flags agree; when they differ it has the magnitude ||a|-|b|| and the Neg
\* flag of the operand of larger magnitude (Neg = false when the magnitudes
\* are equal); a.Add(b).Normalized() == b.Add(a).Normalized().  The
\* magnitudes are those of Value.Add and Value.Sub, and are the exact sum
\* and difference of the mantissas when the exponents are equal and the sum
\* fits MAX_MANTISSA.
C26_SignedAdd ==
  pc = "SignedAdd" =>
    LET order == NumCmp(a.V, b.V)
        sum == NAdd(mant(a.V), mant(b.V))
        diff == IF order >= 0 THEN NSub(mant(a.V), mant(b.V))
                ELSE NSub(mant(b.V), mant(a.V))
        aligned == /\ exp(a.V) = exp(b.V)
                   /\ mant(a.V) # << >> /\ mant(b.V) # << >>
    IN  /\ a.Neg = b.Neg =>
             /\ res.Neg = a.Neg
             /\ res.V = Add(a.V, b.V)
             /\ (aligned /\ NLe(sum, maxMantissa)) =>
                  ExactCmp(mant(res.V), exp(res.V), sum, exp(a.V)) = 0
        /\ a.Neg # b.Neg =>
             /\ res.V = Sub(a.V, b.V)[1]
             /\ res.V = Sub(b.V, a.V)[1]
             /\ res.Neg = IF order > 0 THEN a.Neg
                          ELSE IF order < 0 THEN b.Neg
                          ELSE FALSE
             /\ aligned =>
                  ExactCmp(mant(res.V), exp(res.V), diff, exp(a.V)) = 0
        /\ SignedNormalized(res) = SignedNormalized(SignedAdd(b, a))

\* a positive operand and a negative one of larger magnitude whose
\* exponents differ
C26_Case ==
  /\ pc = "SignedAdd"
  /\ ~a.Neg /\ b.Neg
  /\ exp(a.V) # exp(b.V)
  /\ NumCmp(a.V, b.V) < 0
  /\ mant(a.V) # << >>
  /\ res.Neg
  /\ mant(res.V) # << >>

\* C27: starting from Values produced by the constructors, no sequence of
\* calls to Add, Sub, Mul, Cmp, Eq, Normalized, ToExp, Uint64, Floor, Round,
\* Ceil, String and MarshalJSON, each applied to results of earlier calls,
\* ever panics.  Checked here for the sequences of ToExp and Uint64 calls.
C27_NoPanic == pc # "panic"

---------------------------------------------------------------------------
(* alignment of two operands                                               *)

\* toEqualExp is applied to the mantissas and exponents of two nonzero
\* Values; res and rem hold r1 and r2, each with re
DoToEqualExp ==
  /\ pc = "init"
  /\ mant(a) # << >> /\ mant(b) # << >>
  /\ \E r \in {toEqualExp(mant(a), exp(a), mant(b), exp(b))} :
       /\ res' = [m |-> r[1], e |-> r[3]]
       /\ rem' = [m |-> r[2], e |-> r[3]]
  /\ pc' = "toEqualExp"
  /\ UNCHANGED <<a, b, prec, mi, ei, txt, flag, ord, err, pos, JSONMode, calls>>

\* mantissas that can be multiplied by no, one or many powers of ten, and
\* exponents one to three apart and further than the 19 of pow10
AlignMants ==
  {<<1>>, <<7>>, <<5, 1>>, <<0, 0, 1>>, NAdd(pow10(15), <<1>>), pow10(16),
   NSub(maxMantissa, <<1>>), maxMantissa}

AlignExps ==
  {minExponent, -3, -2, -1, 0, 1, 2, ScaleGap, maxExponent - 1, maxExponent}

AlignValues == {fromMantAndExp(mt, ex) : mt \in AlignMants, ex \in AlignExps}

InitAlign ==
  /\ pc = "init"
  /\ a \in AlignValues
  /\ b \in AlignValues
  /\ prec = 0 /\ mi = << >> /\ ei = 0 /\ txt = << >>
  /\ res = zero /\ rem = zero /\ flag = FALSE /\ ord = 0 /\ err = "" /\ pos = 0
  /\ JSONMode = JSONModeCompact /\ calls = << >>

NextAlign == DoToEqualExp
SpecAlign == InitAlign /\ [][NextAlign]_vars

\* both numbers can be written with mantissas up to MAX_MANTISSA at one
\* exponent between the two
CommonExponent(v, w) ==
  \E c \in SetMin({exp(v), exp(w)})..SetMax({exp(v), exp(w)}) :
    FitsAt(mant(v), exp(v), c) /\ FitsAt(mant(w), exp(w), c)

\* hi is the operand with the larger exponent and rhi its result, lo the
\* other operand and rlo its result, re the common exponent
AlignedAs(hi, lo, rhi, rlo, re) ==
  /\ NLe(rhi, maxMantissa) /\ NLe(rlo, maxMantissa)
  /\ exp(lo) <= re /\ re <= exp(hi)
  /\ ExactCmp(rhi, re, mant(hi), exp(hi)) = 0
  /\ rlo = NShr(mant(lo), re - exp(lo))
  /\ IF CommonExponent(hi, lo)
       THEN ExactCmp(rlo, re, mant(lo), exp(lo)) = 0
       ELSE /\ ExactCmp(rlo, re, mant(lo), exp(lo)) < 0
            /\ ~FitsAt(mant(hi), exp(hi), re - 1)

\* C28: for nonzero mantissas up to MAX_MANTISSA and exponents in range,
\* toEqualExp returns r1, r2 <= MAX_MANTISSA at one common exponent re; the
\* operand with the larger exponent keeps its exact value; the operand with
\* the smaller exponent keeps its exact value whenever some common exponent
\* exists at which both mantissas fit, and otherwise is truncated toward
\* zero (possibly to 0) by exactly the remaining exponent gap.
C28_ToEqualExp ==
  pc = "toEqualExp" =>
    /\ exp(res) = exp(rem)
    /\ IF exp(a) >= exp(b)
         THEN AlignedAs(a, b, mant(res), mant(rem), exp(res))
         ELSE AlignedAs(b, a, mant(rem), mant(res), exp(res))

\* the first operand has the smaller exponent and loses digits, but not all
C28_Case ==
  /\ pc = "toEqualExp"
  /\ exp(a) < exp(b)
  /\ ~CommonExponent(a, b)
  /\ mant(res) # << >>
  /\ exp(res) < exp(b)
  /\ exp(res) > exp(a)

---------------------------------------------------------------------------
(* the sum and its operands                                                *)

\* C29 as stated: the sum is never numerically smaller than either operand,
\* a.Add(b).Cmp(a) >= 0 and a.Add(b).Cmp(b) >= 0, also when the mantissa sum
\* overflows MAX_MANTISSA and a digit is dropped.
C29_SumNotBelowOperands ==
  pc = "Add" => Cmp(res, a) >= 0 /\ Cmp(res, b) >= 0

\* the mantissa sum of the aligned operands exceeds MAX_MANTISSA below
\* MAX_EXP, so that its last digit is dropped
DigitDropped(v, w) ==
  /\ mant(v) # << >> /\ mant(w) # << >>
  /\ LET q == toEqualExp(mant(v), exp(v), mant(w), exp(w))
     IN  NLt(maxMantissa, NAdd(q[1], q[2])) /\ q[3] < maxExponent

\* the larger of the two aligned mantissas
LargerAligned(v, w) ==
  LET q == toEqualExp(mant(v), exp(v), mant(w), exp(w))
  IN  IF NLe(q[1], q[2]) THEN q[2] ELSE q[1]

\* C29: a.Add(b) is never numerically smaller than the smaller operand, and
\* never smaller than either operand unless the mantissa sum overflows
\* MAX_MANTISSA and a digit is dropped; then the sum is below the larger
\* operand by at most 9 units of the aligned exponent (MAX_MANTISSA + 1 at
\* the same exponent is 7205759403792793 * 10).
C29_SumNotBelowSmaller ==
  pc = "Add" =>
    /\ Cmp(res, a) >= 0 \/ Cmp(res, b) >= 0
    /\ NumCmp(a, b) <= 0 => Cmp(res, a) >= 0
    /\ NumCmp(b, a) <= 0 => Cmp(res, b) >= 0
    /\ IF DigitDropped(a, b)
         THEN NLe(LargerAligned(a, b), NAdd(NShl(mant(res), 1), <<9>>))
         ELSE Cmp(res, a) >= 0 /\ Cmp(res, b) >= 0

\* a digit is dropped and the sum is below the first operand
C29_Case ==
  /\ pc = "Add"
  /\ DigitDropped(a, b)
  /\ Cmp(res, a) < 0
  /\ Cmp(res, b) > 0

---------------------------------------------------------------------------
(* MarshalJSON in concurrent goroutines                                    *)

NumCalls == 2

Marshallers == 1..NumCalls

\* a MarshalJSON that encodes in the default mode whatever it has read
MarshalJSONDefault(v, read) == toJSON(v, JSONModeCompact)

\* MarshalJSON, for the value of JSONMode that it has read
MarshalJSON(v, read) == toJSON(v, read)

idleCall == [at |-> "idle", mode |-> JSONModeCompact, seen |-> {}, out |-> << >>]

\* 0, 1.5 (shorter as a string), 1e20 (shorter as an object), 100
RaceValues ==
  {zero, fromMantAndExp(<<5, 1>>, -1), fromMantAndExp(<<1>>, 20),
   fromMantAndExp(<<0, 0, 1>>, 0)}

InitRace ==
  /\ pc = "init"
  /\ a \in RaceValues
  /\ b = zero /\ prec = 0 /\ mi = << >> /\ ei = 0 /\ txt = << >>
  /\ res = zero /\ rem = zero /\ flag = FALSE /\ ord = 0 /\ err = "" /\ pos = 0
  /\ JSONMode = JSONModeCompact
  /\ calls = [p \in Marshallers |-> idleCall]

\* goroutine p calls MarshalJSON
BeginMarshalJSON(p) ==
  /\ calls[p].at = "idle"
  /\ calls' = [calls EXCEPT ![p] = [at |-> "called", mode |-> JSONModeCompact,
                                    seen |-> {JSONMode}, out |-> << >>]]
  /\ UNCHANGED <<pc, a, b, prec, mi, ei, txt, res, rem, flag, ord, err, pos,
                 JSONMode>>

\* the argument JSONMode of toJSON is evaluated: one read of the variable.
\* The read is not synchronized with the writes of other goroutines (a data
\* race); it gives a value that the word has held while the call runs.
ReadJSONMode(p) ==
  /\ calls[p].at = "called"
  /\ \E read \in calls[p].seen :
       calls' = [calls EXCEPT ![p].at = "encoding", ![p].mode = read]
  /\ UNCHANGED <<pc, a, b, prec, mi, ei, txt, res, rem, flag, ord, err, pos,
                 JSONMode>>

\* toJSON builds the bytes from its parameter and MarshalJSON returns them
ReturnMarshalJSON(p) ==
  /\ calls[p].at = "encoding"
  /\ calls' = [calls EXCEPT ![p].at = "returned",
                            ![p].out = MarshalJSON(a, calls[p].mode)]
  /\ UNCHANGED <<pc, a, b, prec, mi, ei, txt, res, rem, flag, ord, err, pos,
                 JSONMode>>

\* goroutine p is ready for its next call
NextMarshalJSON(p) ==
  /\ calls[p].at = "returned"
  /\ calls' = [calls EXCEPT ![p] = idleCall]
  /\ UNCHANGED <<pc, a, b, prec, mi, ei, txt, res, rem, flag, ord, err, pos,
                 JSONMode>>

NextRace ==
  \/ SetJSONMode
  \/ \E p \in Marshallers : BeginMarshalJSON(p)
  \/ \E p \in Marshallers : ReadJSONMode(p)
  \/ \E p \in Marshallers : ReturnMarshalJSON(p)
  \/ \E p \in Marshallers : NextMarshalJSON(p)

SpecRace == InitRace /\ [][NextRace]_vars

=============================================================================
